---- MODULE Spec2Model ----
(***************************************************************************)
(* Analytic one-zone chemical enrichment: waf2017 (constant, exponential   *)
(* and linear-exponential star-formation histories) and fance (rise-fall   *)
(* star-formation history by superposition of two waf2017 tracks), as      *)
(* written in src/fance/models.py, with the time() helper of               *)
(* src/fanCE_weight.py.                                                    *)
(*                                                                         *)
(* Numbers.  A Python float is held as a fixed-point integer: the value v  *)
(* is the integer v * SCALE.  Mass fractions (yields, solar references and *)
(* the linear abundances Z) are held in units of 1e-3, so that 0.0071 is   *)
(* the integer 71000; every expression of the code is homogeneous of       *)
(* degree one in the mass fractions, so the unit cancels in Z / Solar.     *)
(* A normalised star-formation-rate weight is held as an exact fraction    *)
(* [n, d].  numpy arrays are sequences.                                    *)
(***************************************************************************)
EXTENDS Integers, Sequences, FiniteSets, TLC

\* ------------------------------------------------------------------------
\* Bounds of the model
\* ------------------------------------------------------------------------
\* t0 - t_start ranges over 0.05, 0.10, ..., MaxSpan * 0.05 Gyr
MaxSpan == 4

\* ------------------------------------------------------------------------
\* Fixed-point arithmetic
\* ------------------------------------------------------------------------
SCALE == 10000
\* what numpy returns for log10 of a non-positive number (nan or -inf):
\* a value outside the range of every finite fixed-point result
NONFINITE == -1000000000

Abs(x) == IF x < 0 THEN -x ELSE x

Sgn(x) == IF x < 0 THEN -1 ELSE 1

\* a * b, rounded to the nearest 1/SCALE; partial products keep the
\* intermediate values inside the integer range
Mul(a, b) ==
  LET A == Abs(a)
      B == Abs(b)
      a1 == A \div SCALE
      a0 == A % SCALE
      b1 == B \div SCALE
      b0 == B % SCALE
  IN  Sgn(a) * Sgn(b)
        * (a1 * b1 * SCALE + a1 * b0 + a0 * b1
             + (a0 * b0 + SCALE \div 2) \div SCALE)

\* the decimal digits of rem / B after the point, by long division
RECURSIVE LongDiv(_, _, _)
LongDiv(rem, B, digit) ==
  IF digit = 0 THEN 0
  ELSE ((rem * 10) \div B) * digit
         + LongDiv((rem * 10) % B, B, digit \div 10)

\* a / b for b # 0, truncated to 1/SCALE
Div(a, b) ==
  LET A == Abs(a)
      B == Abs(b)
  IN  Sgn(a) * Sgn(b)
        * ((A \div B) * SCALE + LongDiv(A % B, B, SCALE \div 10))

\* np.exp: argument halving down to |x| <= 1/4, then the Taylor polynomial
RECURSIVE Exp(_)
Exp(x) ==
  IF Abs(x) > SCALE \div 4
  THEN LET h == Exp(x \div 2)
           sq == Mul(h, h)
       IN  IF x % 2 = 1 THEN sq + (sq + SCALE \div 2) \div SCALE ELSE sq
  ELSE LET x2 == Mul(x, x)
           x3 == Mul(x2, x)
           x4 == Mul(x3, x)
       IN  SCALE + x + x2 \div 2 + x3 \div 6 + x4 \div 24

\* the fractional part of log10 of x in [1, 10), bit by bit by squaring
RECURSIVE Log10Frac(_, _)
Log10Frac(x, w) ==
  IF w = 0 THEN 0
  ELSE LET sq == Mul(x, x)
       IN  IF sq >= 10 * SCALE
           THEN w + Log10Frac((sq + 5) \div 10, w \div 2)
           ELSE Log10Frac(sq, w \div 2)

RECURSIVE Log10Pos(_)
Log10Pos(x) ==
  IF x >= 10 * SCALE THEN SCALE + Log10Pos(x \div 10)
  ELSE IF x < SCALE THEN Log10Pos(x * 10) - SCALE
  ELSE Log10Frac(x, SCALE \div 2)

\* np.log10
Log10(x) == IF x <= 0 THEN NONFINITE ELSE Log10Pos(x)

\* 10 ** x = exp(x * ln 10), ln 10 = 2.3026
Pow10(x) == Exp(Mul(x, 23026))

\* ------------------------------------------------------------------------
\* Exact fractions (normalised star-formation-rate weights)
\* ------------------------------------------------------------------------
RECURSIVE GCD(_, _)
GCD(a, b) == IF b = 0 THEN a ELSE GCD(b, a % b)

\* the fraction n / d in lowest terms; d = 0 is numpy's nan (0 / 0)
Frac(n, d) ==
  IF d = 0 THEN [n |-> 0, d |-> 0]
  ELSE LET g == GCD(Abs(n), Abs(d))
       IN  [n |-> Sgn(d) * (n \div g), d |-> Abs(d) \div g]

FracAdd(x, y) ==
  IF x.d = 0 \/ y.d = 0 THEN [n |-> 0, d |-> 0]
  ELSE LET g == GCD(x.d, y.d)
       IN  Frac(x.n * (y.d \div g) + y.n * (x.d \div g), x.d * (y.d \div g))

FracDiv(x, y) ==
  IF x.d = 0 \/ y.d = 0 \/ y.n = 0 THEN [n |-> 0, d |-> 0]
  ELSE LET gn == GCD(Abs(x.n), Abs(y.n))
           gd == GCD(x.d, y.d)
           gnn == IF gn = 0 THEN 1 ELSE gn
       IN  Frac((x.n \div gnn) * (y.d \div gd), (x.d \div gd) * (y.n \div gnn))

RECURSIVE FracSumTo(_, _)
FracSumTo(s, k) ==
  IF k = 0 THEN [n |-> 0, d |-> 1] ELSE FracAdd(FracSumTo(s, k - 1), s[k])

\* np.sum of a sequence of fractions
FracSum(s) == FracSumTo(s, Len(s))

\* a fixed-point array seen as fractions
AsFrac(s) == [i \in 1..Len(s) |-> Frac(s[i], SCALE)]

\* SFR /= np.sum(SFR)
Normalize(s) ==
  LET total == FracSum(s)
  IN  [i \in 1..Len(s) |-> FracDiv(s[i], total)]

\* ------------------------------------------------------------------------
\* numpy helpers
\* ------------------------------------------------------------------------
\* np.arange(start, stop, step) for step > 0: ceil((stop - start) / step)
\* samples start, start + step, ...
arange(start, stop, step) ==
  LET n == IF stop > start THEN (stop - start + step - 1) \div step ELSE 0
  IN  [i \in 1..n |-> start + (i - 1) * step]

Ones(s) == [i \in 1..Len(s) |-> SCALE]

\* ------------------------------------------------------------------------
\* Program constants
\* ------------------------------------------------------------------------
\* xfac = 1.0013478 and yfac = 1.0016523, to the precision of SCALE
yfac == 10017
\* The factor of tauSFE equal to the factor of tauSFH
xfac_AsYfac == yfac
xfac == 10013
\* the two tDminIa values the power-law DTD is calibrated for: 0.05, 0.15
tDmin005 == 500
tDmin015 == 1500
\* tauSFH = 1e8 stands for an infinite timescale under the constant SFH;
\* 1e8 is beyond the fixed-point range, and the largest representable power
\* of ten has the same effect: tDminIa / tauSFH is 0 to the precision of SCALE
tauSFHInfinite == 100000000
\* fance's solar mass fractions 0.00733, 0.000671, 0.00137 (units of 1e-3)
fanceSolarO == 73300
fanceSolarMg == 6710
fanceSolarFe == 13700
\* fance: the reference 0.45, aFeEq = 0.0, mu = 1.1 and the factor 0.973
fance_aFeRef == 4500
\* The equilibrium ratio at the plateau: delta = 0 and no Ia iron
fance_aFeEq_Plateau == fance_aFeRef
fance_aFeEq == 0
fance_mu == 11000
fance_yOfac == 9730
\* time(): the 1.e-5 added to tmax, in units of 1/SCALE it is below one unit;
\* the grid times of the model are whole units, so stop = tmax + 1e-5
\* admits exactly the samples <= tmax: it is held as one tenth of a unit by
\* scaling the comparison by timeEpsDen
timeEpsDen == 10

\* ------------------------------------------------------------------------
\* waf2017: the pieces of the function body
\* ------------------------------------------------------------------------
\* The two calibrations of the power law exchanged
ParseIaDTD_Swapped(IaDTD_fn, tauIa, tDminIa) ==
  IF IaDTD_fn = "exponential"
  THEN [raised |-> FALSE, bound |-> TRUE,
        tauIa1 |-> tauIa, tauIa2 |-> tauIa,
        Ia_norm1 |-> SCALE, Ia_norm2 |-> 0]
  ELSE IF IaDTD_fn = "powerlaw"
  THEN IF tDminIa = tDmin015
       THEN [raised |-> FALSE, bound |-> TRUE,
             tauIa1 |-> 2500, tauIa2 |-> 35000,
             Ia_norm1 |-> 4930, Ia_norm2 |-> 5070]
       ELSE IF tDminIa = tDmin005
       THEN [raised |-> FALSE, bound |-> TRUE,
             tauIa1 |-> 5000, tauIa2 |-> 50000,
             Ia_norm1 |-> 4780, Ia_norm2 |-> 5220]
       ELSE [raised |-> FALSE, bound |-> FALSE,
             tauIa1 |-> 0, tauIa2 |-> 0, Ia_norm1 |-> 0, Ia_norm2 |-> 0]
  ELSE [raised |-> TRUE, bound |-> FALSE,
        tauIa1 |-> 0, tauIa2 |-> 0, Ia_norm1 |-> 0, Ia_norm2 |-> 0]

\* lines 56-78: the Ia delay-time distribution.  "raised" is the raise
\* statement of line 78; under 'powerlaw' with an uncalibrated tDminIa the
\* RuntimeError of line 74 is constructed and dropped (there is no raise),
\* and the four locals stay unbound
ParseIaDTD(IaDTD_fn, tauIa, tDminIa) ==
  IF IaDTD_fn = "exponential"
  THEN [raised |-> FALSE, bound |-> TRUE,
        tauIa1 |-> tauIa, tauIa2 |-> tauIa,
        Ia_norm1 |-> SCALE, Ia_norm2 |-> 0]
  ELSE IF IaDTD_fn = "powerlaw"
  THEN IF tDminIa = tDmin005
       THEN [raised |-> FALSE, bound |-> TRUE,
             tauIa1 |-> 2500, tauIa2 |-> 35000,
             Ia_norm1 |-> 4930, Ia_norm2 |-> 5070]
       ELSE IF tDminIa = tDmin015
       THEN [raised |-> FALSE, bound |-> TRUE,
             tauIa1 |-> 5000, tauIa2 |-> 50000,
             Ia_norm1 |-> 4780, Ia_norm2 |-> 5220]
       ELSE [raised |-> FALSE, bound |-> FALSE,
             tauIa1 |-> 0, tauIa2 |-> 0, Ia_norm1 |-> 0, Ia_norm2 |-> 0]
  ELSE [raised |-> TRUE, bound |-> FALSE,
        tauIa1 |-> 0, tauIa2 |-> 0, Ia_norm1 |-> 0, Ia_norm2 |-> 0]

\* 1.0 / (1.0 / a - 1.0 / b)
HarmonicDiff(a, b) == Div(SCALE, Div(SCALE, a) - Div(SCALE, b))

\* Python raises ZeroDivisionError in 1.0 / (1.0 / a - 1.0 / b)
HarmonicDiffFails(a, b) ==
  a = 0 \/ b = 0 \/ Div(SCALE, a) - Div(SCALE, b) = 0

\* lines 85-95: the SFH dispatch of the timescales.  With an unknown tag the
\* RuntimeError of line 95 is constructed and dropped, nothing is bound
SFHTimescales(SFH_fn, tauDep, tauIa1, tauIa2, tauSFH) ==
  IF SFH_fn = "constant"
  THEN [bound |-> TRUE, zerodiv |-> FALSE, tauDepSFH |-> tauDep,
        tauIaSFH1 |-> tauIa1, tauIaSFH2 |-> tauIa2,
        tauSFH |-> tauSFHInfinite]
  ELSE IF SFH_fn \in {"exponential", "linexp"}
  THEN IF \/ HarmonicDiffFails(tauDep, tauSFH)
          \/ HarmonicDiffFails(tauIa1, tauSFH)
          \/ HarmonicDiffFails(tauIa2, tauSFH)
       THEN [bound |-> FALSE, zerodiv |-> TRUE, tauDepSFH |-> 0,
             tauIaSFH1 |-> 0, tauIaSFH2 |-> 0, tauSFH |-> tauSFH]
       ELSE [bound |-> TRUE, zerodiv |-> FALSE,
             tauDepSFH |-> HarmonicDiff(tauDep, tauSFH),
             tauIaSFH1 |-> HarmonicDiff(tauIa1, tauSFH),
             tauIaSFH2 |-> HarmonicDiff(tauIa2, tauSFH),
             tauSFH |-> tauSFH]
  ELSE [bound |-> FALSE, zerodiv |-> FALSE, tauDepSFH |-> 0,
        tauIaSFH1 |-> 0, tauIaSFH2 |-> 0, tauSFH |-> tauSFH]

\* lines 100-109: Ia_norm * yFeIa * ((tauDepSFH / tauSFE)
\*                  * (tauIaSFH / tauIa) * np.exp(tDminIa / tauSFH))
ZFeIaEq(Ia_norm, yFeIa, tauDepSFH, tauSFE, tauIaSFH, tauIa, tDminIa, tauSFH) ==
  Mul(Mul(Ia_norm, yFeIa),
      Mul(Mul(Div(tauDepSFH, tauSFE), Div(tauIaSFH, tauIa)),
          Exp(Div(tDminIa, tauSFH))))

\* lines 113-114: ZEq * (1.0 - np.exp(-tmod / tauDepSFH))
ZCCExp(ZEq, tmod, tauDepSFH) ==
  [i \in 1..Len(tmod) |->
     Mul(ZEq, SCALE - Exp(Div(-tmod[i], tauDepSFH)))]

\* lines 130-131: ZEq * (1.0 - (tauDepSFH / tmod)
\*                              * (1.0 - np.exp(-tmod / tauDepSFH)))
ZCCLinexp(ZEq, tmod, tauDepSFH) ==
  [i \in 1..Len(tmod) |->
     Mul(ZEq, SCALE - Mul(Div(tauDepSFH, tmod[i]),
                          SCALE - Exp(Div(-tmod[i], tauDepSFH))))]

\* lines 116-127, one Ia component of the constant / exponential family
ZFeIaExp(ZFeIaEqk, tmod, tDminIa, tauDepSFH, tauDepIak, tauIaSFHk) ==
  [i \in 1..Len(tmod) |->
     LET delta_t == tmod[i] - tDminIa
     IN  Mul(ZFeIaEqk,
             SCALE - Exp(Div(-delta_t, tauDepSFH))
               - Mul(Div(tauDepIak, tauDepSFH),
                     Exp(Div(-delta_t, tauIaSFHk))
                       - Exp(Div(-delta_t, tauDepSFH))))]

\* lines 133-154, one Ia component of the linear-exponential family
ZFeIaLinexp(ZFeIaEqk, tmod, tDminIa, tauDepSFH, tauDepIak, tauIaSFHk) ==
  [i \in 1..Len(tmod) |->
     LET delta_t == tmod[i] - tDminIa
     IN  Mul(Mul(ZFeIaEqk, Div(tauIaSFHk, tmod[i])),
             Div(delta_t, tauIaSFHk)
               + Mul(Div(tauDepIak, tauDepSFH), Exp(Div(-delta_t, tauIaSFHk)))
               + Mul(SCALE + Div(tauDepSFH, tauIaSFHk)
                       - Div(tauDepIak, tauDepSFH),
                     Exp(Div(-delta_t, tauDepSFH)))
               - (SCALE + Div(tauDepSFH, tauIaSFHk)))]

\* The mask without the delay test: the closed form is kept at every sample
ZeroBeforeDelay_NoMask(Z, tmod, tDminIa) == Z

\* lines 157-158: Z[tmod < tDminIa] = 0
ZeroBeforeDelay(Z, tmod, tDminIa) ==
  [i \in 1..Len(tmod) |-> IF tmod[i] < tDminIa THEN 0 ELSE Z[i]]

\* lines 161-169: the SFR weights of the three shapes, normalised
SFRWeights(SFH_fn, tmod, tauSFH) ==
  Normalize(AsFrac(
    IF SFH_fn = "constant" THEN Ones(tmod)
    ELSE IF SFH_fn = "exponential"
    THEN [i \in 1..Len(tmod) |-> Exp(Div(-tmod[i], tauSFH))]
    ELSE [i \in 1..Len(tmod) |-> Mul(tmod[i], Exp(Div(-tmod[i], tauSFH)))]))

\* lines 171-173: np.log10(Z / Solar)
Bracket(Z, Solar) == [i \in 1..Len(Z) |-> Log10(Div(Z[i], Solar))]

\* lines 174-175: the difference of two bracket tracks; a non-finite operand
\* (nan or -inf) gives a non-finite difference
BracketDiff(XH, FeH) ==
  [i \in 1..Len(XH) |->
     IF XH[i] = NONFINITE \/ FeH[i] = NONFINITE THEN NONFINITE
     ELSE XH[i] - FeH[i]]

\* ------------------------------------------------------------------------
\* Inputs
\* ------------------------------------------------------------------------
\* dt: 0.04 and 0.1 Gyr
DtSet == {400, 1000}
\* t0 - t_start in steps of 0.05 Gyr
SpanSet == {k * 500 : k \in 1..MaxSpan}
\* t_start: 0.5 Gyr
TStartSet == {5000}
\* tDminIa: 0.05, 0.1 and 0.15 Gyr
TDminSet == {tDmin005, 1000, tDmin015}
\* tauIa: 1.5 and 3.0 Gyr
TauIaSet == {15000, 30000}
DTDTags == {"exponential", "powerlaw", "gaussian"}
SFHTags == {"constant", "exponential", "linexp", "burst"}
\* the yields and solar references a caller passes: the defaults of the
\* signatures (lines 8-18, 184-195) and a second set
YieldSets ==
  { [yOCC |-> 71000, yMgCC |-> 7000, yFeCC |-> 5000, yFeIa |-> 7000,
     SolarO |-> 73000, SolarMg |-> 7000, SolarFe |-> 14000],
    [yOCC |-> 50000, yMgCC |-> 6000, yFeCC |-> 4000, yFeIa |-> 9000,
     SolarO |-> 60000, SolarMg |-> 8000, SolarFe |-> 12000] }

\* the arguments of a direct waf2017 call
WafArgs ==
  { [tmod |-> arange(dt, span + dt, dt), tauSFE |-> 10000, tauSFH |-> tauSFH,
     yOCC |-> y.yOCC, yMgCC |-> y.yMgCC, yFeCC |-> y.yFeCC, yFeIa |-> y.yFeIa,
     r |-> 4000, eta |-> 3000, tauIa |-> tauIa, tDminIa |-> tDminIa,
     SolarO |-> y.SolarO, SolarMg |-> y.SolarMg, SolarFe |-> y.SolarFe,
     SFH_fn |-> SFH_fn, IaDTD_fn |-> IaDTD_fn] :
    dt \in DtSet, span \in SpanSet, tauSFH \in {20000, 80000},
    y \in YieldSets, tauIa \in TauIaSet, tDminIa \in TDminSet,
    SFH_fn \in SFHTags, IaDTD_fn \in DTDTags }

\* waf2017 calls at the edges of the parameter space: timescales and
\* 1 + eta - r that are zero or negative, timescales that are equal after
\* the multiplication by xfac and yfac, and timescales that the caller
\* passes equal.  The equal timescales come with eta = r = 0, for which
\* 1 + eta - r is exactly 1.0 in floating point too
WafEdgeTimescales ==
  { \* tauSFE <= 0
    [tauSFE |-> -10000, tauSFH |-> 80000, tauIa |-> 15000, eta |-> 4000, r |-> 4000],
    [tauSFE |-> 0, tauSFH |-> 80000, tauIa |-> 15000, eta |-> 4000, r |-> 4000],
    \* tauSFH <= 0
    [tauSFE |-> 10000, tauSFH |-> 0, tauIa |-> 15000, eta |-> 4000, r |-> 4000],
    [tauSFE |-> 10000, tauSFH |-> -20000, tauIa |-> 15000, eta |-> 4000, r |-> 4000],
    \* tauIa <= 0
    [tauSFE |-> 10000, tauSFH |-> 80000, tauIa |-> 0, eta |-> 4000, r |-> 4000],
    [tauSFE |-> 10000, tauSFH |-> 80000, tauIa |-> -15000, eta |-> 4000, r |-> 4000],
    \* 1 + eta - r = 0 and 1 + eta - r = -0.2
    [tauSFE |-> 10000, tauSFH |-> 80000, tauIa |-> 15000, eta |-> -6000, r |-> 4000],
    [tauSFE |-> 10000, tauSFH |-> 80000, tauIa |-> 15000, eta |-> -8000, r |-> 4000],
    \* tauIa = xfac * tauSFE / (1 + eta - r)
    [tauSFE |-> 10000, tauSFH |-> 80000, tauIa |-> xfac, eta |-> 0, r |-> 0],
    \* xfac * tauSFE / (1 + eta - r) = yfac * tauSFH
    [tauSFE |-> yfac, tauSFH |-> xfac, tauIa |-> 15000, eta |-> 0, r |-> 0],
    \* tauIa = yfac * tauSFH
    [tauSFE |-> 10000, tauSFH |-> 10000, tauIa |-> yfac, eta |-> 0, r |-> 0],
    \* tauSFE / (1 + eta - r) = tauSFH
    [tauSFE |-> 20000, tauSFH |-> 20000, tauIa |-> 15000, eta |-> 0, r |-> 0],
    \* tauSFE / (1 + eta - r) = tauIa
    [tauSFE |-> 15000, tauSFH |-> 80000, tauIa |-> 15000, eta |-> 0, r |-> 0],
    \* tauIa = tauSFH
    [tauSFE |-> 10000, tauSFH |-> 20000, tauIa |-> 20000, eta |-> 0, r |-> 0] }

\* the SFH tags of an edge call.  With tauIa = tauSFH the harmonic difference
\* of the two is near 1100 Gyr, and under 'linexp' the product
\* ZFeIaEq1 * (tauIaSFH1 / tmod) then leaves the integer range of the
\* arithmetic: that call is made under 'constant' and 'exponential' only
WafEdgeTags(e) ==
  IF e.tauIa = e.tauSFH THEN {"constant", "exponential"}
  ELSE {"constant", "exponential", "linexp"}

\* the grid of the edge calls: 1, 2 and 3 Gyr
WafEdgeArgs ==
  UNION { { [tmod |-> <<10000, 20000, 30000>>,
             tauSFE |-> e.tauSFE, tauSFH |-> e.tauSFH,
             yOCC |-> 71000, yMgCC |-> 7000, yFeCC |-> 5000, yFeIa |-> 7000,
             r |-> e.r, eta |-> e.eta, tauIa |-> e.tauIa,
             tDminIa |-> tDmin015,
             SolarO |-> 73000, SolarMg |-> 7000, SolarFe |-> 14000,
             SFH_fn |-> SFH_fn, IaDTD_fn |-> "exponential"] :
            SFH_fn \in WafEdgeTags(e) } : e \in WafEdgeTimescales }

\* a rise timescale beyond the precision of the arithmetic: 1 / tauSFH1 is 0
\* to the precision of SCALE, as 1 / 1e20 is to the precision of a float
\* next to 1 / 8.0
tauSFH1Beyond == 1000000000

\* fance calls at the edges: the rise timescale beyond the precision, and
\* the rise-fall history tauSFH1 = 2.0, tauSFH2 = 8.0, aFeCC = 0.45, the
\* exponential history tauSFH2 = 8.0 and the constant history on
\* a grid of 13 Gyr in steps of 1 Gyr
FanceEdgeArgs ==
  { [aFeCC |-> 4500, tauSFE |-> 10000,
     tauSFH1 |-> e.tauSFH1, tauSFH2 |-> e.tauSFH2,
     yOCC |-> 71000, yMgCC |-> 7000, yFeCC |-> 5000, yFeIa |-> 7000,
     fRetCC |-> 10000, r |-> 4000, eta |-> 3000,
     tauIa |-> 15000, tDminIa |-> tDminIa,
     SolarO |-> 73000, SolarMg |-> 7000, SolarFe |-> 14000,
     IaDTD_fn |-> IaDTD_fn, t_start |-> 5000, t0 |-> 5000 + e.span,
     dt |-> e.dt] :
    e \in { [tauSFH1 |-> tauSFH1Beyond, tauSFH2 |-> 0,
             span |-> 1000, dt |-> 400],
            [tauSFH1 |-> tauSFH1Beyond, tauSFH2 |-> 80000,
             span |-> 1000, dt |-> 400],
            [tauSFH1 |-> 20000, tauSFH2 |-> 80000,
             span |-> 130000, dt |-> 10000],
            [tauSFH1 |-> 0, tauSFH2 |-> 80000,
             span |-> 130000, dt |-> 10000],
            [tauSFH1 |-> 0, tauSFH2 |-> 0,
             span |-> 130000, dt |-> 10000] },
    tDminIa \in {tDmin005, tDmin015},
    IaDTD_fn \in {"exponential", "powerlaw"} }

\* the arguments of a fance call
FanceArgs ==
  { [aFeCC |-> aFeCC, tauSFE |-> 10000,
     tauSFH1 |-> tauSFH1, tauSFH2 |-> tauSFH2,
     yOCC |-> y.yOCC, yMgCC |-> y.yMgCC, yFeCC |-> y.yFeCC, yFeIa |-> y.yFeIa,
     fRetCC |-> fRetCC, r |-> 4000, eta |-> 3000,
     tauIa |-> tauIa, tDminIa |-> tDminIa,
     SolarO |-> y.SolarO, SolarMg |-> y.SolarMg, SolarFe |-> y.SolarFe,
     IaDTD_fn |-> IaDTD_fn, t_start |-> t_start, t0 |-> t_start + span,
     dt |-> dt] :
    aFeCC \in {3500, 4500}, tauSFH1 \in {0, 20000}, tauSFH2 \in {0, 80000},
    y \in YieldSets, fRetCC \in {5000, 10000}, tauIa \in TauIaSet,
    tDminIa \in TDminSet, IaDTD_fn \in DTDTags, t_start \in TStartSet,
    span \in SpanSet, dt \in DtSet }

\* the arguments of a time() call
TimeArgs ==
  { [tstart |-> t_start, t0 |-> t_start + span, dtout |-> dt] :
    t_start \in TStartSet, span \in SpanSet, dt \in DtSet }

\* the arguments of a waf_linexp call (src/fanCE1.py, line 159): grids of
\* 3 Gyr in steps of 1 Gyr that start at 0 and at 0.5 Gyr, the exponential
\* DTD (tauIa = 1.5) and the power law (tauIa = 0), and tauSfh = 0 for the
\* history without a timescale
LinexpArgs ==
  { [tstart |-> tstart, t0 |-> tstart + 30000, dtout |-> 10000,
     mocc |-> 71000, mmgcc |-> 7000, mfecc |-> 5000, mfeIa |-> 7000,
     r |-> 4000, SolarO |-> 73000, SolarMg |-> 7000, SolarFe |-> 14000,
     tauIa |-> tauIa, tdmin |-> tdmin, eta |-> 3000,
     tauStar |-> 10000, tauSfh |-> tauSfh] :
    tstart \in {0, 5000}, tauIa \in {0, 15000}, tdmin \in TDminSet,
    tauSfh \in {0, 20000, 80000} }

\* the arguments of an mdf call (src/fanCE1.py, line 402): three bins of
\* 0.5 dex from -1.0, or no bin; two samples below, inside (lower and upper
\* half of a bin) and above the range, with two weights.  The values keep
\* (xh - xmin) / dx + 0.5 away from whole numbers, where the rounding of a
\* float decides
MdfArgs ==
  { [xmin |-> -10000, xmax |-> xmax, dx |-> 5000,
     xh |-> <<x1, x2>>, sfr |-> <<s1, s2>>] :
    xmax \in {-10000, 5000},
    x1 \in {-14000, -9000, -6000, -4000, -1000, 1000, 4000, 7000},
    x2 \in {-14000, -9000, -6000, -4000, -1000, 1000, 4000, 7000},
    s1 \in {2500, 7500}, s2 \in {2500, 7500} }

\* ------------------------------------------------------------------------
\* State
\* ------------------------------------------------------------------------
VARIABLES
  op,      \* the function the caller invokes: "waf2017", "fance", "time",
           \* "waf_linexp" or "mdf"; "parset" for the life of a parameter set
  args,    \* the caller's arguments
  pc,      \* the position of the running call
  fr,      \* the locals of fance
  wf,      \* the locals of the running waf2017 call
  calls,   \* the waf2017 calls made so far: arguments and return value
  ret,     \* what the caller gets: a return value or an exception
  other,   \* a second solve of the same process, suspended: its op, args,
           \* pc, fr, wf, calls and ret
  mf,      \* the locals of mdf at its return statement
  ps       \* a parameter set: its attributes

vars == <<op, args, pc, fr, wf, calls, ret, other, mf, ps>>

NoArray == <<>>

\* the locals of waf2017 before the first statement; "bound" holds the
\* names of the locals that are assigned
WafFrame(a, caller) ==
  [a |-> a, caller |-> caller, bound |-> {},
   tauIa1 |-> 0, tauIa2 |-> 0, Ia_norm1 |-> 0, Ia_norm2 |-> 0,
   tauSFE |-> a.tauSFE, tauSFH |-> a.tauSFH, tauDep |-> 0,
   tauDepIa1 |-> 0, tauDepIa2 |-> 0,
   tauDepSFH |-> 0, tauIaSFH1 |-> 0, tauIaSFH2 |-> 0,
   ZOEq |-> 0, ZMgEq |-> 0, ZFeCCEq |-> 0, ZFeIaEq1 |-> 0, ZFeIaEq2 |-> 0,
   ZO |-> NoArray, ZMg |-> NoArray, ZFeCC |-> NoArray,
   ZFeIa1 |-> NoArray, ZFeIa2 |-> NoArray, ZFe |-> NoArray,
   SFR |-> NoArray]

NoWafFrame ==
  [a |-> [tmod |-> NoArray], caller |-> "none", bound |-> {},
   tauIa1 |-> 0, tauIa2 |-> 0, Ia_norm1 |-> 0, Ia_norm2 |-> 0,
   tauSFE |-> 0, tauSFH |-> 0, tauDep |-> 0,
   tauDepIa1 |-> 0, tauDepIa2 |-> 0,
   tauDepSFH |-> 0, tauIaSFH1 |-> 0, tauIaSFH2 |-> 0,
   ZOEq |-> 0, ZMgEq |-> 0, ZFeCCEq |-> 0, ZFeIaEq1 |-> 0, ZFeIaEq2 |-> 0,
   ZO |-> NoArray, ZMg |-> NoArray, ZFeCC |-> NoArray,
   ZFeIa1 |-> NoArray, ZFeIa2 |-> NoArray, ZFe |-> NoArray,
   SFR |-> NoArray]

\* the locals of fance before the first statement
NoFanceFrame ==
  [tmod |-> NoArray, t |-> NoArray,
   SolarO |-> 0, SolarMg |-> 0, SolarFe |-> 0,
   yOCC |-> 0, yMgCC |-> 0, yFeCC |-> 0, yFeIa |-> 0,
   branch |-> "none", tauh |-> 0,
   SFR2 |-> NoArray, SFRh |-> NoArray, SFRsum |-> NoArray,
   ZO2 |-> NoArray, ZMg2 |-> NoArray, ZFe2 |-> NoArray,
   ZOh |-> NoArray, ZMgh |-> NoArray, ZFeh |-> NoArray,
   ZO |-> NoArray, ZMg |-> NoArray, ZFe |-> NoArray,
   SFR |-> NoArray, OH |-> NoArray, MgH |-> NoArray, FeH |-> NoArray,
   OFe |-> NoArray, MgFe |-> NoArray]

\* a returned tuple; time() fills t and tmod only, waf2017 leaves t empty
Returned(t, tmod, SFR, OH, MgH, FeH, OFe, MgFe) ==
  [status |-> "returned", exc |-> "none", msg |-> "none", name |-> "none",
   t |-> t, tmod |-> tmod, SFR |-> SFR, OH |-> OH, MgH |-> MgH, FeH |-> FeH,
   OFe |-> OFe, MgFe |-> MgFe]

\* an exception that reaches the caller: no function of the repository
\* catches anything
Raised(exc, msg, name) ==
  [status |-> "raised", exc |-> exc, msg |-> msg, name |-> name,
   t |-> NoArray, tmod |-> NoArray, SFR |-> NoArray, OH |-> NoArray,
   MgH |-> NoArray, FeH |-> NoArray, OFe |-> NoArray, MgFe |-> NoArray]

Pending ==
  [status |-> "pending", exc |-> "none", msg |-> "none", name |-> "none",
   t |-> NoArray, tmod |-> NoArray, SFR |-> NoArray, OH |-> NoArray,
   MgH |-> NoArray, FeH |-> NoArray, OFe |-> NoArray, MgFe |-> NoArray]

MsgDTD == "IaDTD_fn must be either 'exponential' or 'powerlaw' "
MsgTDmin == "tDminIa must be either 0.05 or 0.15 if IaDTD_fn == 'powerlaw' "
MsgSFH == "SFH_fn must be one of 'constant', 'exponential', or 'linexp' "

\* no mdf call has run
NoMdf == [x |-> NoArray, y |-> NoArray, ibin |-> NoArray, ynorm |-> NoArray]

\* no parameter set is constructed
NoParSet == [kind |-> "none"]

\* no second solve
NoSolve ==
  [op |-> "none", args |-> <<>>, pc |-> "none", fr |-> NoFanceFrame,
   wf |-> NoWafFrame, calls |-> <<>>, ret |-> Pending]

Init ==
  /\ op \in {"waf2017", "fance", "time", "waf_linexp", "mdf"}
  /\ args \in (IF op = "waf2017" THEN WafArgs \cup WafEdgeArgs
               ELSE IF op = "fance" THEN FanceArgs \cup FanceEdgeArgs
               ELSE IF op = "time" THEN TimeArgs
               ELSE IF op = "mdf" THEN MdfArgs
               ELSE LinexpArgs)
  /\ pc = "call"
  /\ fr = NoFanceFrame
  /\ wf = NoWafFrame
  /\ calls = <<>>
  /\ ret = Pending
  /\ other = NoSolve
  /\ mf = NoMdf
  /\ ps = NoParSet

\* ------------------------------------------------------------------------
\* waf2017 (src/fance/models.py, lines 4-176)
\* ------------------------------------------------------------------------
\* an exception leaves waf2017, and fance when fance is the caller
Raise(e) ==
  /\ ret' = e
  /\ calls' = [calls EXCEPT ![Len(calls)].ret = e]
  /\ pc' = "raised"
  /\ UNCHANGED <<other, mf, ps, op, args, fr, wf>>

\* the caller invokes waf2017
waf2017_call ==
  /\ pc = "call"
  /\ op = "waf2017"
  /\ wf' = WafFrame(args, "top")
  /\ calls' = Append(calls, [args |-> args, ret |-> Pending])
  /\ pc' = "w_dtd"
  /\ UNCHANGED <<other, mf, ps, op, args, fr, ret>>

\* what a group of statements does to the locals w of a waf2017 call: the
\* exception it ends with, or the locals after it
Throws(e) == [raised |-> TRUE, exc |-> e, wf |-> NoWafFrame]

Runs(w) == [raised |-> FALSE, exc |-> Pending, wf |-> w]

ZeroDivision == Raised("ZeroDivisionError", "float division by zero", "none")

\* lines 56-78
DTDStep(w) ==
  LET d == ParseIaDTD(w.a.IaDTD_fn, w.a.tauIa, w.a.tDminIa)
  IN  IF d.raised
      THEN Throws(Raised("RuntimeError", MsgDTD, "none"))
      ELSE Runs([w EXCEPT
             !.tauIa1 = d.tauIa1, !.tauIa2 = d.tauIa2,
             !.Ia_norm1 = d.Ia_norm1, !.Ia_norm2 = d.Ia_norm2,
             !.bound = IF d.bound
                       THEN @ \cup {"tauIa1", "tauIa2", "Ia_norm1", "Ia_norm2"}
                       ELSE @])

\* lines 79-95
TimescalesStep(w) ==
  LET tauSFE == Mul(w.tauSFE, xfac)
      tauSFH == Mul(w.tauSFH, yfac)
      den == SCALE + w.a.eta - w.a.r
      tauDep == Div(tauSFE, den)
      s == SFHTimescales(w.a.SFH_fn, tauDep, w.tauIa1, w.tauIa2, tauSFH)
  IN  IF den = 0 \/ Div(tauSFE, den) = 0
      THEN Throws(ZeroDivision)
      ELSE IF "tauIa1" \notin w.bound
      THEN Throws(Raised("UnboundLocalError", "none", "tauIa1"))
      ELSE IF \/ HarmonicDiffFails(tauDep, w.tauIa1)
              \/ HarmonicDiffFails(tauDep, w.tauIa2)
              \/ s.zerodiv
      THEN Throws(ZeroDivision)
      ELSE Runs([w EXCEPT
             !.tauSFE = tauSFE, !.tauSFH = s.tauSFH, !.tauDep = tauDep,
             !.tauDepIa1 = HarmonicDiff(tauDep, w.tauIa1),
             !.tauDepIa2 = HarmonicDiff(tauDep, w.tauIa2),
             !.tauDepSFH = s.tauDepSFH,
             !.tauIaSFH1 = s.tauIaSFH1, !.tauIaSFH2 = s.tauIaSFH2,
             !.bound = @ \cup {"tauDep", "tauDepIa1", "tauDepIa2"}
                         \cup (IF s.bound
                               THEN {"tauDepSFH", "tauIaSFH1", "tauIaSFH2"}
                               ELSE {})])

\* lines 96-109
EquilibriumStep(w) ==
  IF "tauDepSFH" \notin w.bound
  THEN Throws(Raised("UnboundLocalError", "none", "tauDepSFH"))
  ELSE Runs([w EXCEPT
         !.ZOEq = Div(Mul(w.a.yOCC, w.tauDepSFH), w.tauSFE),
         !.ZMgEq = Div(Mul(w.a.yMgCC, w.tauDepSFH), w.tauSFE),
         !.ZFeCCEq = Div(Mul(w.a.yFeCC, w.tauDepSFH), w.tauSFE),
         !.ZFeIaEq1 = ZFeIaEq(w.Ia_norm1, w.a.yFeIa, w.tauDepSFH,
                              w.tauSFE, w.tauIaSFH1, w.tauIa1,
                              w.a.tDminIa, w.tauSFH),
         !.ZFeIaEq2 = ZFeIaEq(w.Ia_norm2, w.a.yFeIa, w.tauDepSFH,
                              w.tauSFE, w.tauIaSFH2, w.tauIa2,
                              w.a.tDminIa, w.tauSFH),
         !.bound = @ \cup {"ZOEq", "ZMgEq", "ZFeCCEq",
                           "ZFeIaEq1", "ZFeIaEq2"}])

\* lines 110-159
NonEquilibriumStep(w) ==
  LET tmod == w.a.tmod
      tD == w.a.tDminIa
      lin == w.a.SFH_fn = "linexp"
      ZO == IF lin THEN ZCCLinexp(w.ZOEq, tmod, w.tauDepSFH)
            ELSE ZCCExp(w.ZOEq, tmod, w.tauDepSFH)
      ZMg == IF lin THEN ZCCLinexp(w.ZMgEq, tmod, w.tauDepSFH)
             ELSE ZCCExp(w.ZMgEq, tmod, w.tauDepSFH)
      ZFeCC == [i \in 1..Len(tmod) |-> Div(Mul(ZO[i], w.ZFeCCEq), w.ZOEq)]
      Ia1 == IF lin
             THEN ZFeIaLinexp(w.ZFeIaEq1, tmod, tD, w.tauDepSFH,
                              w.tauDepIa1, w.tauIaSFH1)
             ELSE ZFeIaExp(w.ZFeIaEq1, tmod, tD, w.tauDepSFH,
                           w.tauDepIa1, w.tauIaSFH1)
      Ia2 == IF lin
             THEN ZFeIaLinexp(w.ZFeIaEq2, tmod, tD, w.tauDepSFH,
                              w.tauDepIa2, w.tauIaSFH2)
             ELSE ZFeIaExp(w.ZFeIaEq2, tmod, tD, w.tauDepSFH,
                           w.tauDepIa2, w.tauIaSFH2)
      ZFeIa1 == ZeroBeforeDelay(Ia1, tmod, tD)
      ZFeIa2 == ZeroBeforeDelay(Ia2, tmod, tD)
  IN  IF w.a.SFH_fn \notin {"constant", "exponential", "linexp"}
      THEN Throws(Raised("UnboundLocalError", "none", "ZFeIa1"))
      ELSE Runs([w EXCEPT
             !.ZO = ZO, !.ZMg = ZMg, !.ZFeCC = ZFeCC,
             !.ZFeIa1 = ZFeIa1, !.ZFeIa2 = ZFeIa2,
             !.ZFe = [i \in 1..Len(tmod) |->
                        ZFeCC[i] + ZFeIa1[i] + ZFeIa2[i]],
             !.bound = @ \cup {"ZO", "ZMg", "ZFeCC",
                               "ZFeIa1", "ZFeIa2", "ZFe"}])

\* lines 160-169
SFRStep(w) ==
  IF w.a.SFH_fn \notin {"constant", "exponential", "linexp"}
  THEN Throws(Raised("UnboundLocalError", "none", "SFR"))
  ELSE Runs([w EXCEPT
         !.SFR = SFRWeights(w.a.SFH_fn, w.a.tmod, w.tauSFH),
         !.bound = @ \cup {"SFR"}])

\* the running waf2017 call executes a group of statements: its exception
\* leaves the call, or the locals are updated and control goes on at next
waf2017_step(st, next) ==
  IF st.raised
  THEN Raise(st.exc)
  ELSE /\ wf' = st.wf
       /\ pc' = next
       /\ UNCHANGED <<other, mf, ps, op, args, fr, calls, ret>>

\* lines 56-78
waf2017_dtd ==
  /\ pc = "w_dtd"
  /\ waf2017_step(DTDStep(wf), "w_tau")

\* lines 79-95
waf2017_timescales ==
  /\ pc = "w_tau"
  /\ waf2017_step(TimescalesStep(wf), "w_eq")

\* lines 96-109
waf2017_equilibrium ==
  /\ pc = "w_eq"
  /\ waf2017_step(EquilibriumStep(wf), "w_noneq")

\* lines 110-159
waf2017_nonequilibrium ==
  /\ pc = "w_noneq"
  /\ waf2017_step(NonEquilibriumStep(wf), "w_sfr")

\* lines 160-169
waf2017_sfr ==
  /\ pc = "w_sfr"
  /\ waf2017_step(SFRStep(wf), "w_ret")

\* lines 170-176: the tuple SFR, OH, MgH, FeH, OFe, MgFe
waf2017_result(w) ==
  LET OH == Bracket(w.ZO, w.a.SolarO)
      MgH == Bracket(w.ZMg, w.a.SolarMg)
      FeH == Bracket(w.ZFe, w.a.SolarFe)
  IN  Returned(NoArray, NoArray, w.SFR, OH, MgH, FeH,
               BracketDiff(OH, FeH), BracketDiff(MgH, FeH))

\* waf2017 as a function of its arguments: lines 56-176 from first to last
waf2017_value(a) ==
  LET s1 == DTDStep(WafFrame(a, "top"))
      s2 == TimescalesStep(s1.wf)
      s3 == EquilibriumStep(s2.wf)
      s4 == NonEquilibriumStep(s3.wf)
      s5 == SFRStep(s4.wf)
  IN  IF s1.raised THEN s1.exc
      ELSE IF s2.raised THEN s2.exc
      ELSE IF s3.raised THEN s3.exc
      ELSE IF s4.raised THEN s4.exc
      ELSE IF s5.raised THEN s5.exc
      ELSE waf2017_result(s5.wf)

\* lines 170-176; control goes back to the caller
waf2017_return ==
  /\ pc = "w_ret"
  /\ LET res == waf2017_result(wf)
     IN  /\ calls' = [calls EXCEPT ![Len(calls)].ret = res]
         /\ IF wf.caller = "top"
            THEN ret' = res /\ pc' = "done"
            ELSE ret' = ret /\ pc' = "f_back"
  /\ UNCHANGED <<other, mf, ps, op, args, fr, wf>>

\* ------------------------------------------------------------------------
\* fance (src/fance/models.py, lines 179-382)
\* ------------------------------------------------------------------------
\* line 238: tmod = np.arange(dt, t0 - t_start + dt, dt)
fance_tmod(dt, t0, t_start) == arange(dt, t0 - t_start + dt, dt)

\* The reported times without the offset t_start
fance_t_NoOffset(tmod, t_start) == tmod

\* line 241: t = tmod + t_start
fance_t(tmod, t_start) == [i \in 1..Len(tmod) |-> tmod[i] + t_start]

\* line 249: 0.973 * SolarO * (0.00137 / SolarFe) * (10**(aFeCC-0.45))
fance_yOCC(aFeCC, SolarO, SolarFe) ==
  Mul(Mul(Mul(fance_yOfac, SolarO), Div(13700, SolarFe)),
      Pow10(aFeCC - fance_aFeRef))

\* line 250: yOCC * (SolarFe / SolarO) * (10**(-aFeCC))
fance_yFeCC(yOCC, aFeCC, SolarO, SolarFe) ==
  Mul(Mul(yOCC, Div(SolarFe, SolarO)), Pow10(-aFeCC))

\* The Mg yield set to the solar Mg abundance
fance_yMgCC_Solar(yOCC, SolarO, SolarMg) == SolarMg

\* line 251: yOCC * SolarMg / SolarO
fance_yMgCC(yOCC, SolarO, SolarMg) == Div(Mul(yOCC, SolarMg), SolarO)

\* lines 253-255: yFeCC * (10.**(delta) - 1.) / mu
fance_yFeIa(yFeCC, aFeCC) ==
  Div(Mul(yFeCC, Pow10(aFeCC - fance_aFeEq) - SCALE), fance_mu)

\* The Ia yield derived from the CCSN iron yield after the scaling by fRetCC
FanceYields_IaAfterRet(a) ==
  LET yOCC == fance_yOCC(a.aFeCC, fanceSolarO, fanceSolarFe)
      yFeCC == fance_yFeCC(yOCC, a.aFeCC, fanceSolarO, fanceSolarFe)
      yMgCC == fance_yMgCC(yOCC, fanceSolarO, fanceSolarMg)
  IN  [SolarO |-> fanceSolarO, SolarMg |-> fanceSolarMg,
       SolarFe |-> fanceSolarFe,
       yOCC |-> Mul(yOCC, a.fRetCC), yMgCC |-> Mul(yMgCC, a.fRetCC),
       yFeCC |-> Mul(yFeCC, a.fRetCC),
       yFeIa |-> fance_yFeIa(Mul(yFeCC, a.fRetCC), a.aFeCC)]

\* lines 243-261: the solar references and the four yields are assigned
\* from constants and aFeCC, whatever the caller passed; then the three
\* CCSN yields are scaled by fRetCC
FanceYields(a) ==
  LET yOCC == fance_yOCC(a.aFeCC, fanceSolarO, fanceSolarFe)
      yFeCC == fance_yFeCC(yOCC, a.aFeCC, fanceSolarO, fanceSolarFe)
      yMgCC == fance_yMgCC(yOCC, fanceSolarO, fanceSolarMg)
      yFeIa == fance_yFeIa(yFeCC, a.aFeCC)
  IN  [SolarO |-> fanceSolarO, SolarMg |-> fanceSolarMg,
       SolarFe |-> fanceSolarFe,
       yOCC |-> Mul(yOCC, a.fRetCC), yMgCC |-> Mul(yMgCC, a.fRetCC),
       yFeCC |-> Mul(yFeCC, a.fRetCC), yFeIa |-> yFeIa]

\* The dispatch that looks at tauSFH1 only
FanceBranch_ConstantFirst(tauSFH1, tauSFH2) ==
  IF tauSFH1 <= 0 THEN "constant" ELSE "risefall"

\* lines 263, 281, 300: the branch of the SFH dispatch
FanceBranch(tauSFH1, tauSFH2) ==
  IF tauSFH1 <= 0 /\ tauSFH2 <= 0 THEN "constant"
  ELSE IF tauSFH1 <= 0 /\ tauSFH2 > 0 THEN "exponential"
  ELSE "risefall"

\* the keyword arguments of a waf2017 call made by fance; tauSFH is the
\* default 8.0 of waf2017's signature where fance passes none
FanceWafArgs(f, a, tauSFH, SFH_fn) ==
  [tmod |-> f.tmod, tauSFE |-> a.tauSFE, tauSFH |-> tauSFH,
   yOCC |-> f.yOCC, yMgCC |-> f.yMgCC, yFeCC |-> f.yFeCC, yFeIa |-> f.yFeIa,
   r |-> a.r, eta |-> a.eta, tauIa |-> a.tauIa, tDminIa |-> a.tDminIa,
   SolarO |-> f.SolarO, SolarMg |-> f.SolarMg, SolarFe |-> f.SolarFe,
   SFH_fn |-> SFH_fn, IaDTD_fn |-> a.IaDTD_fn]

waf2017_default_tauSFH == 80000

\* lines 236-241
GridStep(f, a) ==
  LET tmod == fance_tmod(a.dt, a.t0, a.t_start)
  IN  [f EXCEPT !.tmod = tmod, !.t = fance_t(tmod, a.t_start)]

\* lines 243-261
YieldsStep(f, a) ==
  LET y == FanceYields(a)
  IN  [f EXCEPT
        !.SolarO = y.SolarO, !.SolarMg = y.SolarMg, !.SolarFe = y.SolarFe,
        !.yOCC = y.yOCC, !.yMgCC = y.yMgCC, !.yFeCC = y.yFeCC,
        !.yFeIa = y.yFeIa]

\* lines 263, 281, 300, 303-304, 323-324: the branch, and tauh in the
\* rise-fall branch
DispatchStep(f, a) ==
  LET branch == FanceBranch(a.tauSFH1, a.tauSFH2)
  IN  [f EXCEPT
        !.branch = branch,
        !.tauh = IF branch # "risefall" THEN 0
                 ELSE IF a.tauSFH2 <= 0 THEN a.tauSFH1
                 ELSE Div(SCALE, Div(SCALE, a.tauSFH1)
                                   + Div(SCALE, a.tauSFH2))]

\* lines 264-280, 282-299, 305-321, 325-342: the arguments of the first
\* waf2017 call of the branch
FirstCallArgs(f, a) ==
  LET const == f.branch = "constant"
                 \/ (f.branch = "risefall" /\ a.tauSFH2 <= 0)
  IN  FanceWafArgs(f, a,
        IF const THEN waf2017_default_tauSFH ELSE a.tauSFH2,
        IF const THEN "constant" ELSE "exponential")

\* lines 264 and 282: the tuple of the single call is bound to
\* SFR, OH, MgH, FeH, OFe, MgFe
DirectStep(f, res) ==
  [f EXCEPT
    !.SFR = res.SFR, !.OH = res.OH, !.MgH = res.MgH, !.FeH = res.FeH,
    !.OFe = res.OFe, !.MgFe = res.MgFe]

\* line 322: np.ones_like(SFR2); line 343: np.exp(-tmod / tauSFH2)
fance_SFR2(tmod, tauSFH2) ==
  IF tauSFH2 <= 0 THEN Ones(tmod)
  ELSE [i \in 1..Len(tmod) |-> Exp(Div(-tmod[i], tauSFH2))]

\* The second weight with a positive sign
fance_SFRh_Positive(tmod, tauh) ==
  [i \in 1..Len(tmod) |-> Exp(Div(-tmod[i], tauh))]

\* line 362: -1 * np.exp(-tmod / tauh)
fance_SFRh(tmod, tauh) ==
  [i \in 1..Len(tmod) |-> -1 * Exp(Div(-tmod[i], tauh))]

\* lines 322 / 343
SecondStep(f, a) == [f EXCEPT !.SFR2 = fance_SFR2(f.tmod, a.tauSFH2)]

\* lines 344-361: the arguments of the call with tauSFH = tauh
SecondCallArgs(f, a) == FanceWafArgs(f, a, f.tauh, "exponential")

\* lines 365-370: Solar * 10 ** XH; 10 ** XH is non-finite or 0 where XH is
\* nan or -inf, and the model keeps the non-finite mark
Linear(XH, Solar) ==
  [i \in 1..Len(XH) |->
     IF XH[i] = NONFINITE THEN NONFINITE ELSE Mul(Solar, Pow10(XH[i]))]

\* lines 371-373: (SFR2 * Z2 + SFRh * Zh) / SFR; numpy gives a non-finite
\* value where SFR is 0
Combine(SFR2, Z2, SFRh, Zh, SFR) ==
  [i \in 1..Len(SFR) |->
     IF SFR[i] = 0 \/ Z2[i] = NONFINITE \/ Zh[i] = NONFINITE THEN NONFINITE
     ELSE Div(Mul(SFR2[i], Z2[i]) + Mul(SFRh[i], Zh[i]), SFR[i])]

\* The combination that takes the two ratios from the call with tauSFH2
CombineStep_RatiosOfCall(f, r2, rh) ==
  LET SFR2 == f.SFR2
      SFRh == fance_SFRh(f.tmod, f.tauh)
      SFR == [i \in 1..Len(f.tmod) |-> SFR2[i] + SFRh[i]]
      ZO == Combine(SFR2, Linear(r2.OH, f.SolarO),
                    SFRh, Linear(rh.OH, f.SolarO), SFR)
      ZMg == Combine(SFR2, Linear(r2.MgH, f.SolarMg),
                     SFRh, Linear(rh.MgH, f.SolarMg), SFR)
      ZFe == Combine(SFR2, Linear(r2.FeH, f.SolarFe),
                     SFRh, Linear(rh.FeH, f.SolarFe), SFR)
  IN  [f EXCEPT
        !.SFRh = SFRh, !.SFRsum = SFR, !.SFR = AsFrac(SFR),
        !.ZO2 = Linear(r2.OH, f.SolarO), !.ZMg2 = Linear(r2.MgH, f.SolarMg),
        !.ZFe2 = Linear(r2.FeH, f.SolarFe),
        !.ZOh = Linear(rh.OH, f.SolarO), !.ZMgh = Linear(rh.MgH, f.SolarMg),
        !.ZFeh = Linear(rh.FeH, f.SolarFe),
        !.ZO = ZO, !.ZMg = ZMg, !.ZFe = ZFe,
        !.OH = Bracket(ZO, f.SolarO), !.MgH = Bracket(ZMg, f.SolarMg),
        !.FeH = Bracket(ZFe, f.SolarFe),
        !.OFe = r2.OFe, !.MgFe = r2.MgFe]

\* lines 362-379: r2 and rh are the tuples of the two waf2017 calls
CombineStep(f, r2, rh) ==
  LET SFR2 == f.SFR2
      SFRh == fance_SFRh(f.tmod, f.tauh)
      SFR == [i \in 1..Len(f.tmod) |-> SFR2[i] + SFRh[i]]
      ZO2 == Linear(r2.OH, f.SolarO)
      ZMg2 == Linear(r2.MgH, f.SolarMg)
      ZFe2 == Linear(r2.FeH, f.SolarFe)
      ZOh == Linear(rh.OH, f.SolarO)
      ZMgh == Linear(rh.MgH, f.SolarMg)
      ZFeh == Linear(rh.FeH, f.SolarFe)
      ZO == Combine(SFR2, ZO2, SFRh, ZOh, SFR)
      ZMg == Combine(SFR2, ZMg2, SFRh, ZMgh, SFR)
      ZFe == Combine(SFR2, ZFe2, SFRh, ZFeh, SFR)
      OH == Bracket(ZO, f.SolarO)
      MgH == Bracket(ZMg, f.SolarMg)
      FeH == Bracket(ZFe, f.SolarFe)
  IN  [f EXCEPT
        !.SFRh = SFRh, !.SFRsum = SFR, !.SFR = AsFrac(SFR),
        !.ZO2 = ZO2, !.ZMg2 = ZMg2, !.ZFe2 = ZFe2,
        !.ZOh = ZOh, !.ZMgh = ZMgh, !.ZFeh = ZFeh,
        !.ZO = ZO, !.ZMg = ZMg, !.ZFe = ZFe,
        !.OH = OH, !.MgH = MgH, !.FeH = FeH,
        !.OFe = BracketDiff(OH, FeH), !.MgFe = BracketDiff(MgH, FeH)]

\* lines 380-382: the tuple t, SFR, OH, MgH, FeH, OFe, MgFe
fance_result(f) ==
  Returned(f.t, NoArray, Normalize(f.SFR), f.OH, f.MgH, f.FeH, f.OFe, f.MgFe)

\* fance as a function of its arguments: lines 236-382 from first to last;
\* an exception of a waf2017 call leaves fance too
fance_value(a) ==
  LET f == DispatchStep(YieldsStep(GridStep(NoFanceFrame, a), a), a)
      r1 == waf2017_value(FirstCallArgs(f, a))
      f2 == SecondStep(f, a)
      rh == waf2017_value(SecondCallArgs(f2, a))
  IN  IF r1.status = "raised" THEN r1
      ELSE IF f.branch # "risefall" THEN fance_result(DirectStep(f, r1))
      ELSE IF rh.status = "raised" THEN rh
      ELSE fance_result(CombineStep(f2, r1, rh))

\* lines 236-241
fance_grid ==
  /\ pc = "call"
  /\ op = "fance"
  /\ fr' = GridStep(fr, args)
  /\ pc' = "f_yields"
  /\ UNCHANGED <<other, mf, ps, op, args, wf, calls, ret>>

\* lines 243-261
fance_yields ==
  /\ pc = "f_yields"
  /\ fr' = YieldsStep(fr, args)
  /\ pc' = "f_sfh"
  /\ UNCHANGED <<other, mf, ps, op, args, wf, calls, ret>>

\* lines 262-342: the SFH dispatch and the first waf2017 call of the branch
fance_first ==
  /\ pc = "f_sfh"
  /\ LET f == DispatchStep(fr, args)
         a == FirstCallArgs(f, args)
     IN  /\ fr' = f
         /\ wf' = WafFrame(a, "fance")
         /\ calls' = Append(calls, [args |-> a, ret |-> Pending])
  /\ pc' = "w_dtd"
  /\ UNCHANGED <<other, mf, ps, op, args, ret>>

\* lines 264 and 282
fance_direct ==
  /\ pc = "f_back"
  /\ fr.branch \in {"constant", "exponential"}
  /\ fr' = DirectStep(fr, calls[Len(calls)].ret)
  /\ pc' = "f_norm"
  /\ UNCHANGED <<other, mf, ps, op, args, wf, calls, ret>>

\* lines 322 / 343, then the call of lines 344-361 with tauSFH = tauh
fance_second ==
  /\ pc = "f_back"
  /\ fr.branch = "risefall"
  /\ Len(calls) = 1
  /\ LET f == SecondStep(fr, args)
         a == SecondCallArgs(f, args)
     IN  /\ fr' = f
         /\ wf' = WafFrame(a, "fance")
         /\ calls' = Append(calls, [args |-> a, ret |-> Pending])
  /\ pc' = "w_dtd"
  /\ UNCHANGED <<other, mf, ps, op, args, ret>>

\* lines 362-379
fance_combine ==
  /\ pc = "f_back"
  /\ fr.branch = "risefall"
  /\ Len(calls) = 2
  /\ fr' = CombineStep(fr, calls[1].ret, calls[2].ret)
  /\ pc' = "f_norm"
  /\ UNCHANGED <<other, mf, ps, op, args, wf, calls, ret>>

\* lines 380-382
fance_return ==
  /\ pc = "f_norm"
  /\ ret' = fance_result(fr)
  /\ pc' = "done"
  /\ UNCHANGED <<other, mf, ps, op, args, fr, wf, calls>>

\* ------------------------------------------------------------------------
\* time (src/fanCE_weight.py, lines 7-33)
\* ------------------------------------------------------------------------
\* line 30: np.arange(dtout, tmax+1.e-5, dtout); 1.e-5 is 1 / timeEpsDen
\* of a fixed-point unit
time_tmod(tstart, t0, dtout) ==
  LET x == arange(dtout * timeEpsDen, (t0 - tstart) * timeEpsDen + 1,
                  dtout * timeEpsDen)
  IN  [i \in 1..Len(x) |-> x[i] \div timeEpsDen]

\* time as a function of its arguments: the pair tmod + tstart, tmod
time_value(a) ==
  LET tmod == time_tmod(a.tstart, a.t0, a.dtout)
  IN  Returned([i \in 1..Len(tmod) |-> tmod[i] + a.tstart],
               tmod, NoArray, NoArray, NoArray, NoArray, NoArray, NoArray)

\* lines 26-33
time_call ==
  /\ pc = "call"
  /\ op = "time"
  /\ ret' = time_value(args)
  /\ pc' = "done"
  /\ UNCHANGED <<other, mf, ps, op, args, fr, wf, calls>>

\* ------------------------------------------------------------------------
\* waf_linexp (src/fanCE1.py, lines 159-295)
\* ------------------------------------------------------------------------
\* line 212: tauIa < 0.01 selects the double exponential
waf_linexp_tauIaMin == 100

\* lines 265-276: one Ia component, tpre the time array of its prefactor
\* tauIaSfh / tpre
ZFeIaLinexpAt(ZfeIaEqk, tpre, tmod, tdmin, tauDepSfh, tauDepIak, tauIaSfhk) ==
  [i \in 1..Len(tmod) |->
     LET deltat == tmod[i] - tdmin
     IN  Mul(Mul(ZfeIaEqk, Div(tauIaSfhk, tpre[i])),
             Div(deltat, tauIaSfhk)
               + Mul(Div(tauDepIak, tauDepSfh), Exp(Div(-deltat, tauIaSfhk)))
               + Mul(SCALE + Div(tauDepSfh, tauIaSfhk)
                       - Div(tauDepIak, tauDepSfh),
                     Exp(Div(-deltat, tauDepSfh)))
               - (SCALE + Div(tauDepSfh, tauIaSfhk)))]

\* the arguments of waf_linexp under the names of waf2017's parameters, with
\* the tags that select the same statements in waf2017
LinexpAsWaf(a, tmod) ==
  [tmod |-> tmod, tauSFE |-> a.tauStar, tauSFH |-> a.tauSfh,
   yOCC |-> a.mocc, yMgCC |-> a.mmgcc, yFeCC |-> a.mfecc, yFeIa |-> a.mfeIa,
   r |-> a.r, eta |-> a.eta, tauIa |-> a.tauIa, tDminIa |-> a.tdmin,
   SolarO |-> a.SolarO, SolarMg |-> a.SolarMg, SolarFe |-> a.SolarFe,
   SFH_fn |-> "linexp",
   IaDTD_fn |-> IF a.tauIa < waf_linexp_tauIaMin THEN "powerlaw"
                ELSE "exponential"]

\* lines 198-295: the locals of waf_linexp at its return statement, or the
\* exception it ends with.  sys is not imported by src/fanCE1.py, so
\* sys.exit() at line 226 is a NameError
waf_linexp_locals(a) ==
  LET tmod == time_tmod(a.tstart, a.t0, a.dtout)
      t == [i \in 1..Len(tmod) |-> tmod[i] + a.tstart]
      wa == LinexpAsWaf(a, tmod)
      \* lines 212-232: the same two calibrations as waf2017's 'powerlaw'
      d == ParseIaDTD(wa.IaDTD_fn, a.tauIa, a.tdmin)
      \* lines 235-237
      tauStar == Mul(a.tauStar, xfac)
      tauSfh == Mul(a.tauSfh, yfac)
      den == SCALE + a.eta - a.r
      tauDep == Div(tauStar, den)
      \* lines 240-248
      timed == tauSfh > 0
      tauDepSfh == IF timed THEN HarmonicDiff(tauDep, tauSfh) ELSE tauDep
      tauIaSfh1 == IF timed THEN HarmonicDiff(d.tauIa1, tauSfh) ELSE d.tauIa1
      tauIaSfh2 == IF timed THEN HarmonicDiff(d.tauIa2, tauSfh) ELSE d.tauIa2
      tauSfhEnd == IF timed THEN tauSfh ELSE tauSFHInfinite
      \* lines 251-257
      ZoEq == Div(Mul(a.mocc, tauDepSfh), tauStar)
      ZmgEq == Div(Mul(a.mmgcc, tauDepSfh), tauStar)
      ZfeccEq == Div(Mul(a.mfecc, tauDepSfh), tauStar)
      ZfeIaEq1 == ZFeIaEq(d.Ia_norm1, a.mfeIa, tauDepSfh, tauStar,
                          tauIaSfh1, d.tauIa1, a.tdmin, tauSfhEnd)
      ZfeIaEq2 == ZFeIaEq(d.Ia_norm2, a.mfeIa, tauDepSfh, tauStar,
                          tauIaSfh2, d.tauIa2, a.tdmin, tauSfhEnd)
      tauDepIa1 == HarmonicDiff(tauDep, d.tauIa1)
      tauDepIa2 == HarmonicDiff(tauDep, d.tauIa2)
      \* lines 262-264
      Zo == ZCCLinexp(ZoEq, tmod, tauDepSfh)
      Zmg == [i \in 1..Len(tmod) |-> Div(Mul(Zo[i], ZmgEq), ZoEq)]
      Zfecc == [i \in 1..Len(tmod) |-> Div(Mul(Zo[i], ZfeccEq), ZoEq)]
      \* lines 265-270: the prefactor of component 1 is tauIaSfh1 / t
      ZfeIa1 == ZeroBeforeDelay(
                  ZFeIaLinexpAt(ZfeIaEq1, t, tmod, a.tdmin, tauDepSfh,
                                tauDepIa1, tauIaSfh1), tmod, a.tdmin)
      \* lines 271-276: the prefactor of component 2 is tauIaSfh2 / tmod
      ZfeIa2 == ZeroBeforeDelay(
                  ZFeIaLinexpAt(ZfeIaEq2, tmod, tmod, a.tdmin, tauDepSfh,
                                tauDepIa2, tauIaSfh2), tmod, a.tdmin)
  IN  IF ~d.bound
      THEN Throws(Raised("NameError", "none", "sys"))
      ELSE IF \/ den = 0 \/ tauDep = 0
              \/ HarmonicDiffFails(tauDep, d.tauIa1)
              \/ HarmonicDiffFails(tauDep, d.tauIa2)
              \/ (timed /\ (\/ HarmonicDiffFails(tauDep, tauSfh)
                             \/ HarmonicDiffFails(d.tauIa1, tauSfh)
                             \/ HarmonicDiffFails(d.tauIa2, tauSfh)))
      THEN Throws(ZeroDivision)
      ELSE Runs([a |-> wa, caller |-> "waf_linexp",
                 bound |-> {"tauIa1", "tauIa2", "Ia_norm1", "Ia_norm2",
                            "tauDep", "tauDepIa1", "tauDepIa2", "tauDepSFH",
                            "tauIaSFH1", "tauIaSFH2", "ZOEq", "ZMgEq",
                            "ZFeCCEq", "ZFeIaEq1", "ZFeIaEq2", "ZO", "ZMg",
                            "ZFeCC", "ZFeIa1", "ZFeIa2", "ZFe", "SFR"},
                 tauIa1 |-> d.tauIa1, tauIa2 |-> d.tauIa2,
                 Ia_norm1 |-> d.Ia_norm1, Ia_norm2 |-> d.Ia_norm2,
                 tauSFE |-> tauStar, tauSFH |-> tauSfhEnd, tauDep |-> tauDep,
                 tauDepIa1 |-> tauDepIa1, tauDepIa2 |-> tauDepIa2,
                 tauDepSFH |-> tauDepSfh,
                 tauIaSFH1 |-> tauIaSfh1, tauIaSFH2 |-> tauIaSfh2,
                 ZOEq |-> ZoEq, ZMgEq |-> ZmgEq, ZFeCCEq |-> ZfeccEq,
                 ZFeIaEq1 |-> ZfeIaEq1, ZFeIaEq2 |-> ZfeIaEq2,
                 ZO |-> Zo, ZMg |-> Zmg, ZFeCC |-> Zfecc,
                 ZFeIa1 |-> ZfeIa1, ZFeIa2 |-> ZfeIa2,
                 ZFe |-> [i \in 1..Len(tmod) |->
                            Zfecc[i] + ZfeIa1[i] + ZfeIa2[i]],
                 \* lines 283-287: tauSfh is positive at line 284 whatever
                 \* the caller passed, 1.e8 at the least
                 SFR |-> SFRWeights("linexp", tmod, tauSfhEnd)])

\* lines 289-295: the tuple t, sfr, OH, MgH, FeH, OFe, MgFe
waf_linexp_result(w, tstart) ==
  LET OH == Bracket(w.ZO, w.a.SolarO)
      MgH == Bracket(w.ZMg, w.a.SolarMg)
      FeH == Bracket(w.ZFe, w.a.SolarFe)
  IN  Returned([i \in 1..Len(w.a.tmod) |-> w.a.tmod[i] + tstart], NoArray,
               w.SFR, OH, MgH, FeH,
               BracketDiff(OH, FeH), BracketDiff(MgH, FeH))

\* lines 159-295: the caller invokes waf_linexp
waf_linexp_call ==
  /\ pc = "call"
  /\ op = "waf_linexp"
  /\ LET st == waf_linexp_locals(args)
     IN  IF st.raised
         THEN /\ ret' = st.exc
              /\ pc' = "raised"
              /\ wf' = wf
         ELSE /\ ret' = waf_linexp_result(st.wf, args.tstart)
              /\ pc' = "done"
              /\ wf' = st.wf
  /\ UNCHANGED <<other, mf, ps, op, args, fr, calls>>

\* ------------------------------------------------------------------------
\* mdf (src/fanCE1.py, lines 402-418)
\* ------------------------------------------------------------------------
\* line 409: int((xh[i] - xmin) / dx + 0.5), where int truncates toward zero
mdf_ibin(xh, xmin, dx) ==
  LET n == 2 * (xh - xmin) + dx
  IN  IF n >= 0 THEN n \div (2 * dx) ELSE -((-n) \div (2 * dx))

\* the sum of the weights sfr[1..n] whose bin is k
RECURSIVE BinTotal(_, _, _, _)
BinTotal(sfr, ibin, k, n) ==
  IF n = 0 THEN 0
  ELSE BinTotal(sfr, ibin, k, n - 1) + (IF ibin[n] = k THEN sfr[n] ELSE 0)

\* lines 403-418.  np_int tells whether the installed numpy has the alias
\* np.int (removed in numpy 1.24); bins are numbered from 0 as in the source
mdf_locals(a, np_int) ==
  LET x == arange(a.xmin, a.xmax, a.dx)
      \* line 410: np.clip(ibin, 0, len(x) - 1), the minimum of the upper
      \* limit and of the maximum of ibin and 0
      ibin == [i \in 1..Len(a.xh) |->
                 LET v == mdf_ibin(a.xh[i], a.xmin, a.dx)
                     m == IF v < 0 THEN 0 ELSE v
                 IN  IF m > Len(x) - 1 THEN Len(x) - 1 ELSE m]
      y == [k \in 1..Len(x) |-> BinTotal(a.sfr, ibin, k - 1, Len(a.xh))]
      total == BinTotal(a.sfr, [i \in 1..Len(a.xh) |-> 0], 0, Len(a.xh))
  IN  IF Len(a.xh) > 0 /\ ~np_int
      THEN [raised |-> TRUE,
            exc |-> Raised("AttributeError", "none", "int"), mf |-> NoMdf]
      ELSE IF Len(a.xh) > 0 /\ Len(x) = 0
      THEN [raised |-> TRUE,
            exc |-> Raised("IndexError", "none", "none"), mf |-> NoMdf]
      ELSE [raised |-> FALSE, exc |-> Pending,
            mf |-> [x |-> [k \in 1..Len(x) |-> x[k] + a.dx \div 2],
                    y |-> y, ibin |-> ibin,
                    ynorm |-> [k \in 1..Len(x) |->
                                 Frac(y[k] * SCALE, total * a.dx)]]]

\* lines 402-418: the caller invokes mdf
mdf_call ==
  /\ pc = "call"
  /\ op = "mdf"
  /\ \E np_int \in BOOLEAN :
       LET st == mdf_locals(args, np_int)
       IN  IF st.raised
           THEN /\ ret' = st.exc
                /\ pc' = "raised"
                /\ mf' = mf
           ELSE /\ ret' = [status |-> "returned", exc |-> "none",
                            msg |-> "none", name |-> "none",
                            x |-> st.mf.x, y |-> st.mf.ynorm]
                /\ pc' = "done"
                /\ mf' = st.mf
  /\ UNCHANGED <<other, ps, op, args, fr, wf, calls>>

\* ------------------------------------------------------------------------
\* Specification
\* ------------------------------------------------------------------------
Next ==
  \/ waf2017_call
  \/ waf2017_dtd
  \/ waf2017_timescales
  \/ waf2017_equilibrium
  \/ waf2017_nonequilibrium
  \/ waf2017_sfr
  \/ waf2017_return
  \/ fance_grid
  \/ fance_yields
  \/ fance_first
  \/ fance_direct
  \/ fance_second
  \/ fance_combine
  \/ fance_return
  \/ time_call
  \/ waf_linexp_call
  \/ mdf_call

Spec == Init /\ [][Next]_vars

\* ------------------------------------------------------------------------
\* Two solves side by side.  The module holds no state (line 1 of
\* src/fance/models.py is its only module-level statement), so each solve
\* has its own op, args, pc, fr, wf, calls and ret, and the scheduler may
\* pass from one solve to the other between any two groups of statements
\* ------------------------------------------------------------------------
\* the solves that run side by side: waf2017 calls that return and that
\* raise, fance calls of the three shapes, and a time() call
ParSolves ==
  {[op |-> "waf2017", args |-> a] :
     a \in {x \in WafEdgeArgs : /\ x.SFH_fn = "exponential"
                                /\ x.tauSFE = 10000 /\ x.tauSFH = 80000
                                /\ x.eta \in {-6000, 4000}}}
  \cup
  {[op |-> "fance", args |-> a] :
     a \in {x \in FanceEdgeArgs : /\ x.IaDTD_fn = "exponential"
                                  /\ x.tDminIa = tDmin015
                                  /\ x.tauSFH2 = 80000}
          \cup
          {x \in FanceArgs : /\ x.aFeCC = 4500 /\ x.tauSFH1 = 0
                             /\ x.tauSFH2 = 80000 /\ x.yOCC = 71000
                             /\ x.fRetCC = 10000 /\ x.tauIa = 15000
                             /\ x.tDminIa = tDmin015
                             /\ x.IaDTD_fn = "exponential"
                             /\ x.t0 - x.t_start = 500 /\ x.dt = 400}}
  \cup
  {[op |-> "time", args |-> a] :
     a \in {x \in TimeArgs : x.t0 - x.tstart = 500 /\ x.dtout = 400}}

\* a solve before its first statement
Start(s) ==
  [op |-> s.op, args |-> s.args, pc |-> "call", fr |-> NoFanceFrame,
   wf |-> NoWafFrame, calls |-> <<>>, ret |-> Pending]

InitPar ==
  \E s \in ParSolves, o \in ParSolves :
    /\ op = s.op
    /\ args = s.args
    /\ pc = "call"
    /\ fr = NoFanceFrame
    /\ wf = NoWafFrame
    /\ calls = <<>>
    /\ ret = Pending
    /\ other = Start(o)
    /\ mf = NoMdf
    /\ ps = NoParSet

\* The scheduler passes to the other solve, whose waf2017 locals are the
\* ones of the solve that ran: the locals kept in one place for all solves
Switch_SharedLocals ==
  /\ other.op # "none"
  /\ op' = other.op
  /\ args' = other.args
  /\ pc' = other.pc
  /\ fr' = other.fr
  /\ wf' = wf
  /\ calls' = other.calls
  /\ ret' = other.ret
  /\ other' = [op |-> op, args |-> args, pc |-> pc, fr |-> fr, wf |-> wf,
               calls |-> calls, ret |-> ret]
  /\ UNCHANGED <<mf, ps>>

\* the scheduler passes to the other solve: each solve keeps its own
\* arguments and locals (src/fance/models.py lines 4-21 and 179-200: all
\* names that waf2017 and fance assign are parameters or locals)
Switch ==
  /\ other.op # "none"
  /\ op' = other.op
  /\ args' = other.args
  /\ pc' = other.pc
  /\ fr' = other.fr
  /\ wf' = other.wf
  /\ calls' = other.calls
  /\ ret' = other.ret
  /\ other' = [op |-> op, args |-> args, pc |-> pc, fr |-> fr, wf |-> wf,
               calls |-> calls, ret |-> ret]
  /\ UNCHANGED <<mf, ps>>

NextPar ==
  \/ waf2017_call
  \/ waf2017_dtd
  \/ waf2017_timescales
  \/ waf2017_equilibrium
  \/ waf2017_nonequilibrium
  \/ waf2017_sfr
  \/ waf2017_return
  \/ fance_grid
  \/ fance_yields
  \/ fance_first
  \/ fance_direct
  \/ fance_second
  \/ fance_combine
  \/ fance_return
  \/ time_call
  \/ Switch

SpecPar == InitPar /\ [][NextPar]_vars

\* ------------------------------------------------------------------------
\* Parameter sets (src/fance/par.py)
\* ------------------------------------------------------------------------
\* the number of update calls on one parameter set
MaxUpdates == 2

\* lines 3-12: the solar abundances and the yields of the module, as mass
\* fractions in units of 1e-7
par_module ==
  [SolarO |-> 73300, SolarMg |-> 6710, SolarFe |-> 13700,
   yOCC |-> 71321, yMgCC |-> 6529, yFeCC |-> 4730, yFeIa |-> 7151]

\* setattr(self, n, v)
SetAttr(attrs, n, v) ==
  [m \in DOMAIN attrs \cup {n} |-> IF m = n THEN v ELSE attrs[m]]

\* the keywords of model_kwargs, lines 39-56 and 111-129
model_kwargs_keys(kind) ==
  IF kind = "WAF"
  THEN {"tauSFE", "tauSFH", "yOCC", "yMgCC", "yFeCC", "yFeIa", "r", "eta",
        "tauIa", "tDminIa", "SolarO", "SolarMg", "SolarFe", "SFH_fn",
        "IaDTD_fn", "tmod"}
  ELSE {"tauSFE", "tauSFH1", "tauSFH2", "fRetCC", "yOCC", "yMgCC", "yFeCC",
        "yFeIa", "r", "eta", "tauIa", "tDminIa", "SolarO", "SolarMg",
        "SolarFe", "IaDTD_fn", "tmod"}

\* lines 37-38: self.tmod and self.t
ParSet_grid(attrs) ==
  LET tmod == arange(attrs["dt"],
                     attrs["t0"] - attrs["t_start"] + attrs["dt"],
                     attrs["dt"])
  IN  SetAttr(SetAttr(attrs, "tmod", tmod), "t",
              [i \in 1..Len(tmod) |-> tmod[i] + attrs["t_start"]])

\* lines 39-56: self.model_kwargs = dict(...)
ParSet_kwargs(attrs, kind) ==
  SetAttr(attrs, "model_kwargs", [k \in model_kwargs_keys(kind) |-> attrs[k]])

\* lines 19-36: the attributes DefaultWAFParSet.__init__ assigns first
WAF_attrs ==
  [tauSFE |-> 10000, tauSFH |-> 80000,
   yOCC |-> par_module.yOCC, yMgCC |-> par_module.yMgCC,
   yFeCC |-> par_module.yFeCC, yFeIa |-> par_module.yFeIa,
   r |-> 4000, eta |-> 3000, tauIa |-> 15000, tDminIa |-> tDmin005,
   SolarO |-> par_module.SolarO, SolarMg |-> par_module.SolarMg,
   SolarFe |-> par_module.SolarFe,
   SFH_fn |-> "exponential", IaDTD_fn |-> "powerlaw",
   t_start |-> 5000, t0 |-> 140000, dt |-> 200]

\* lines 90-108: the attributes DefaultfanCEParSet.__init__ assigns first
fanCE_attrs ==
  [tauSFE |-> 10000, tauSFH1 |-> 20000, tauSFH2 |-> 80000, fRetCC |-> 10000,
   yOCC |-> par_module.yOCC, yMgCC |-> par_module.yMgCC,
   yFeCC |-> par_module.yFeCC, yFeIa |-> par_module.yFeIa,
   r |-> 4000, eta |-> 3000, tauIa |-> 15000, tDminIa |-> tDmin015,
   SolarO |-> par_module.SolarO, SolarMg |-> par_module.SolarMg,
   SolarFe |-> par_module.SolarFe, IaDTD_fn |-> "powerlaw",
   t_start |-> 5000, t0 |-> 140000, dt |-> 200]

\* a parameter set after a call that returned or raised; n counts its updates
ParSet(kind, attrs, n, last) ==
  [kind |-> kind, attrs |-> attrs, n |-> n, last |-> last]

\* the items an update dictionary may hold: attributes of the grid, a
\* 'log'-prefixed grid step and timescale, the derived attributes themselves,
\* an attribute of one class only and a step of zero
UpdateItems ==
  { <<"dt", 10000>>, <<"logdt", -10000>>, <<"t0", 30000>>,
    <<"t_start", 10000>>, <<"tmod", <<>>>>, <<"t", <<>>>>,
    <<"model_kwargs", <<>>>>, <<"logtauSFE", 10000>>, <<"tauSFH1", 30000>>,
    <<"dt", 0>> }

\* the dictionaries p of update, in the order of insertion: one item, a key
\* of a derived attribute followed by a grid step, or the grid step under
\* both of its keys
UpdateDicts ==
  { <<i>> : i \in UpdateItems } \cup
  { <<i, j>> : i \in { k \in UpdateItems :
                         k[1] \in {"tmod", "t", "model_kwargs"} },
               j \in { k \in UpdateItems : k[1] \in {"dt", "logdt"} } } \cup
  { <<<<"dt", 10000>>, <<"logdt", -10000>>>>,
    <<<<"logdt", -10000>>, <<"dt", 10000>>>> }

\* lines 59-63: the loop over p.items(), after its first n items
RECURSIVE update_items(_, _, _)
update_items(attrs, p, n) ==
  IF n = 0 THEN attrs
  ELSE LET a == update_items(attrs, p, n - 1)
           p_name == p[n][1]
           p_val == p[n][2]
       IN  IF SubSeq(p_name, 1, IF Len(p_name) < 3 THEN Len(p_name) ELSE 3)
                = "log"
           THEN SetAttr(a, SubSeq(p_name, 4, Len(p_name)), Pow10(p_val))
           ELSE SetAttr(a, p_name, p_val)

\* The update leaves the derived attributes as the loop left them
update_rebuild_Skipped(attrs, kind) == attrs

\* lines 64-83: update assigns tmod, t and model_kwargs again
update_rebuild(attrs, kind) == ParSet_kwargs(ParSet_grid(attrs), kind)

\* lines 58-83 and 131-157: update(self, p)
update(kind, p) ==
  /\ pc = "call"
  /\ op = "parset"
  /\ ps.kind = kind
  /\ ps.n < MaxUpdates
  /\ LET a == update_items(ps.attrs, p, Len(p))
     IN  IF a["dt"] = 0   \* np.arange of line 64 fails
         THEN \E exc \in {"ZeroDivisionError", "ValueError"} :
                ps' = ParSet(kind, a, ps.n + 1, exc)
         ELSE ps' = ParSet(kind, update_rebuild(a, kind), ps.n + 1, "returned")
  /\ args' = p
  /\ ret' = Pending
  /\ UNCHANGED <<other, mf, op, pc, fr, wf, calls>>

\* lines 16-56: DefaultWAFParSet()
DefaultWAFParSet_init ==
  /\ pc = "call"
  /\ op = "parset"
  /\ ps.kind = "none"
  /\ ps' = ParSet("WAF", ParSet_kwargs(ParSet_grid(WAF_attrs), "WAF"), 0,
                  "returned")
  /\ UNCHANGED <<other, mf, op, args, pc, fr, wf, calls, ret>>

\* lines 87-129: DefaultfanCEParSet()
DefaultfanCEParSet_init ==
  /\ pc = "call"
  /\ op = "parset"
  /\ ps.kind = "none"
  /\ ps' = ParSet("fanCE", ParSet_kwargs(ParSet_grid(fanCE_attrs), "fanCE"),
                  0, "returned")
  /\ UNCHANGED <<other, mf, op, args, pc, fr, wf, calls, ret>>

\* lines 58-83: DefaultWAFParSet.update
DefaultWAFParSet_update == \E p \in UpdateDicts : update("WAF", p)

\* lines 131-157: DefaultfanCEParSet.update
DefaultfanCEParSet_update == \E p \in UpdateDicts : update("fanCE", p)

\* the parameter names of the solvers (models.py, lines 4-21 and 179-200)
parameters(solver) ==
  IF solver = "waf2017"
  THEN {"tmod", "tauSFE", "tauSFH", "yOCC", "yMgCC", "yFeCC", "yFeIa", "r",
        "eta", "tauIa", "tDminIa", "SolarO", "SolarMg", "SolarFe", "SFH_fn",
        "IaDTD_fn"}
  ELSE {"aFeCC", "tauSFE", "tauSFH1", "tauSFH2", "yOCC", "yMgCC", "yFeCC",
        "yFeIa", "fRetCC", "r", "eta", "tauIa", "tDminIa", "SolarO",
        "SolarMg", "SolarFe", "IaDTD_fn", "t_start", "t0", "dt"}

\* solver(**kwargs): the keywords are bound to the parameters of the solver
\* before its body runs; a keyword that is no parameter, or tmod of waf2017
\* (its one parameter without a default) left without a value, is a
\* TypeError; otherwise the call is accepted and the body starts
bind(solver, kwargs) ==
  IF \E k \in DOMAIN kwargs : k \notin parameters(solver)
  THEN Raised("TypeError", "unexpected keyword argument",
              CHOOSE k \in DOMAIN kwargs : k \notin parameters(solver))
  ELSE IF solver = "waf2017" /\ "tmod" \notin DOMAIN kwargs
  THEN Raised("TypeError", "missing required argument", "tmod")
  ELSE [Pending EXCEPT !.status = "accepted"]

\* waf2017(**ps.model_kwargs) or fance(**ps.model_kwargs), up to the entry of
\* the solver's body
model_kwargs_call ==
  /\ pc = "call"
  /\ op = "parset"
  /\ ps.kind # "none"
  /\ ps.last = "returned"
  /\ ret = Pending
  /\ ret' = bind(IF ps.kind = "WAF" THEN "waf2017" ELSE "fance",
               ps.attrs["model_kwargs"])
  /\ UNCHANGED <<other, mf, ps, op, args, pc, fr, wf, calls>>

InitParSet ==
  /\ op = "parset"
  /\ args = <<>>
  /\ pc = "call"
  /\ fr = NoFanceFrame
  /\ wf = NoWafFrame
  /\ calls = <<>>
  /\ ret = Pending
  /\ other = NoSolve
  /\ mf = NoMdf
  /\ ps = NoParSet

NextParSet ==
  \/ DefaultWAFParSet_init
  \/ DefaultfanCEParSet_init
  \/ DefaultWAFParSet_update
  \/ DefaultfanCEParSet_update
  \/ model_kwargs_call

SpecParSet == InitParSet /\ [][NextParSet]_vars

\* ------------------------------------------------------------------------
\* The sample at the minimum delay, tmod = tDminIa, in binary floating point
\* (src/fance/models.py, lines 56-95 and 110-158)
\* ------------------------------------------------------------------------
\* the bits of a significand: a float is m * 2^e with |m| < 2^Precision, and
\* every operation rounds to the nearest float, ties to even, as the
\* arithmetic of a Python float does with 53 bits
Precision == 8

RECURSIVE Pow2(_)
Pow2(k) == IF k = 0 THEN 1 ELSE 2 * Pow2(k - 1)

\* the number of bits of n >= 0
RECURSIVE BitLen(_)
BitLen(n) == IF n = 0 THEN 0 ELSE 1 + BitLen(n \div 2)

\* 0.0
FZero == [m |-> 0, e |-> 0]

\* the float nearest to n * 2^e
Round(n, e) ==
  LET k == BitLen(Abs(n)) - Precision
  IN  IF n = 0 THEN FZero
      ELSE IF k <= 0 THEN [m |-> n * Pow2(-k), e |-> e + k]
      ELSE LET q == Abs(n) \div Pow2(k)
               rem == Abs(n) % Pow2(k)
               up == rem > Pow2(k - 1) \/ (rem = Pow2(k - 1) /\ q % 2 = 1)
               q1 == IF up THEN q + 1 ELSE q
           IN  IF q1 = Pow2(Precision)
               THEN [m |-> Sgn(n) * (q1 \div 2), e |-> e + k + 1]
               ELSE [m |-> Sgn(n) * q1, e |-> e + k]

\* x + y
FAdd(x, y) ==
  IF x.m = 0 THEN y
  ELSE IF y.m = 0 THEN x
  ELSE LET e0 == IF x.e < y.e THEN x.e ELSE y.e
       IN  Round(x.m * Pow2(x.e - e0) + y.m * Pow2(y.e - e0), e0)

\* x - y
FSub(x, y) == FAdd(x, [m |-> -y.m, e |-> y.e])

\* x * y
FMul(x, y) == Round(x.m * y.m, x.e + y.e)

\* x / y for y # 0: the quotient to Precision + 3 bits, and one bit more that
\* tells whether a remainder is left
FDiv(x, y) ==
  LET s == Precision + 3
      q == (Abs(x.m) * Pow2(s)) \div Abs(y.m)
      sticky == IF (Abs(x.m) * Pow2(s)) % Abs(y.m) = 0 THEN 0 ELSE 1
  IN  Round(Sgn(x.m) * Sgn(y.m) * (2 * q + sticky), x.e - y.e - s - 1)

\* 1.0
FOne == Round(1, 0)

\* the float of a decimal literal given in hundredths
Literal(hundredths) == FDiv(Round(hundredths, 0), Round(100, 0))

\* lines 57-74 with the accepted tags: the two delay-time timescales
FloatIaDTD(IaDTD_fn, tauIa, tDminIa) ==
  IF IaDTD_fn = "exponential"
  THEN [tauIa1 |-> tauIa, tauIa2 |-> tauIa]
  ELSE IF tDminIa = tDmin005
  THEN [tauIa1 |-> Literal(25), tauIa2 |-> Literal(350)]
  ELSE [tauIa1 |-> Literal(50), tauIa2 |-> Literal(500)]

\* 1.0 / a - 1.0 / b
FloatRateDiff(a, b) == FSub(FDiv(FOne, a), FDiv(FOne, b))

\* lines 80-93: the timescales of one Ia component.  The division by a
\* difference of zero is the ZeroDivisionError of Python
FloatTimescales(a, tauIa) ==
  LET \* the floats of xfac and yfac, held as 1.0013 and 1.0017 * SCALE
      tauSFE == FMul(a.tauSFE, FDiv(Round(xfac, 0), Round(SCALE, 0)))
      tauSFH == FMul(a.tauSFH, FDiv(Round(yfac, 0), Round(SCALE, 0)))
      tauDep == FDiv(tauSFE, FSub(FAdd(FOne, a.eta), a.r))
      const == a.SFH_fn = "constant"
      zerodiv == \/ FloatRateDiff(tauDep, tauIa).m = 0
                 \/ ~const /\ FloatRateDiff(tauDep, tauSFH).m = 0
                 \/ ~const /\ FloatRateDiff(tauIa, tauSFH).m = 0
  IN  IF zerodiv THEN [zerodiv |-> TRUE]
      ELSE [zerodiv |-> FALSE,
            tauDepIa |-> FDiv(FOne, FloatRateDiff(tauDep, tauIa)),
            tauDepSFH |-> IF const THEN tauDep
                          ELSE FDiv(FOne, FloatRateDiff(tauDep, tauSFH)),
            tauIaSFH |-> IF const THEN tauIa
                         ELSE FDiv(FOne, FloatRateDiff(tauIa, tauSFH))]

\* np.exp(-delta_t / tau) where delta_t = tmod - tDminIa is 0.0
ExpAtDelay(tau) == IF FDiv(FZero, tau).m = 0 THEN FOne ELSE FZero

\* lines 116-121: the factor of ZFeIaEq in ZFeIa, where delta_t is 0.0
ZFeIaExpAtDelay(ts) ==
  FSub(FSub(FOne, ExpAtDelay(ts.tauDepSFH)),
       FMul(FDiv(ts.tauDepIa, ts.tauDepSFH),
            FSub(ExpAtDelay(ts.tauIaSFH), ExpAtDelay(ts.tauDepSFH))))

\* lines 134-143: the factor of ZFeIaEq * (tauIaSFH / tmod) in ZFeIa, where
\* delta_t is 0.0
ZFeIaLinexpAtDelay(ts) ==
  LET ratio == FDiv(ts.tauDepIa, ts.tauDepSFH)
      onePlus == FAdd(FOne, FDiv(ts.tauDepSFH, ts.tauIaSFH))
  IN  FSub(FAdd(FAdd(FDiv(FZero, ts.tauIaSFH),
                     FMul(ratio, ExpAtDelay(ts.tauIaSFH))),
                FMul(FSub(onePlus, ratio), ExpAtDelay(ts.tauDepSFH))),
           onePlus)

\* the arguments of a call whose grid holds the sample tmod = tDminIa
DelayArgs ==
  { [tauSFE |-> Literal(tauSFE), tauSFH |-> Literal(tauSFH),
     eta |-> Literal(eta), r |-> Literal(40), tauIa |-> Literal(tauIa),
     tDminIa |-> tDminIa, SFH_fn |-> SFH_fn, IaDTD_fn |-> IaDTD_fn] :
    tauSFE \in {50, 100, 200}, tauSFH \in {300, 600, 800},
    eta \in {0, 30, 250}, tauIa \in {100, 150},
    tDminIa \in {tDmin005, tDmin015},
    SFH_fn \in {"constant", "exponential", "linexp"},
    IaDTD_fn \in {"exponential", "powerlaw"} }

\* lines 80-158 at the sample tmod = tDminIa, for one family of histories:
\* the two Ia components as lines 116-154 leave them and as the masks of
\* lines 157-158 leave them (tmod < tDminIa is false there)
delay_sample(linexp) ==
  /\ pc = "call"
  /\ op = "delay"
  /\ LET dtd == FloatIaDTD(args.IaDTD_fn, args.tauIa, args.tDminIa)
         ts1 == FloatTimescales(args, dtd.tauIa1)
         ts2 == FloatTimescales(args, dtd.tauIa2)
         closed_form(ts) == IF linexp THEN ZFeIaLinexpAtDelay(ts)
                            ELSE ZFeIaExpAtDelay(ts)
     IN  IF ts1.zerodiv \/ ts2.zerodiv
         THEN /\ ret' = ZeroDivision
              /\ pc' = "raised"
         ELSE /\ ret' = [status |-> "returned", exc |-> "none",
                          msg |-> "none", name |-> "none",
                          ZFeIa1 |-> closed_form(ts1),
                          ZFeIa2 |-> closed_form(ts2)]
              /\ pc' = "done"
  /\ UNCHANGED <<other, mf, ps, op, args, fr, wf, calls>>

\* lines 111-127: SFH_fn in ["constant", "exponential"]
delay_constexp ==
  /\ args.SFH_fn \in {"constant", "exponential"}
  /\ delay_sample(FALSE)

\* lines 128-154: SFH_fn == "linexp"
delay_linexp ==
  /\ args.SFH_fn = "linexp"
  /\ delay_sample(TRUE)

InitDelay ==
  /\ op = "delay"
  /\ args \in DelayArgs
  /\ pc = "call"
  /\ fr = NoFanceFrame
  /\ wf = NoWafFrame
  /\ calls = <<>>
  /\ ret = Pending
  /\ other = NoSolve
  /\ mf = NoMdf
  /\ ps = NoParSet

NextDelay ==
  \/ delay_constexp
  \/ delay_linexp

SpecDelay == InitDelay /\ [][NextDelay]_vars

\* ------------------------------------------------------------------------
\* Properties
\* ------------------------------------------------------------------------
One == [n |-> 1, d |-> 1]

Finished == pc \in {"done", "raised"}

\* the arguments of the waf2017 call that ran last
LastCall == calls[Len(calls)]

\* C1: every SFR sequence returned by waf2017 (called directly or by fance)
\* and by fance, in the constant, exponential and rise-fall branches, sums
\* to 1
C1_SFRSumsToOne ==
  /\ \A k \in 1..Len(calls) :
       calls[k].ret.status = "returned" => FracSum(calls[k].ret.SFR) = One
  /\ (pc = "done" /\ op \in {"waf2017", "fance"}) => FracSum(ret.SFR) = One

GridCount(span, dt) == span \div dt

\* C3: the grid of fance and of time() is dt, 2 dt, ..., k dt with k the
\* largest integer such that k dt <= t0 - t_start, and the reported times
\* t = tmod + t_start never exceed t0
C3_GridWithinT0 ==
  /\ (op = "fance" /\ pc # "call") =>
       /\ fr.tmod = [i \in 1..GridCount(args.t0 - args.t_start, args.dt) |->
                       i * args.dt]
       /\ \A i \in 1..Len(fr.t) : fr.t[i] <= args.t0
  /\ (op = "time" /\ pc = "done") =>
       /\ ret.tmod = [i \in 1..GridCount(args.t0 - args.tstart, args.dtout) |->
                        i * args.dtout]
       /\ \A i \in 1..Len(ret.t) : ret.t[i] <= args.t0

C5_CallerYieldsUsed ==
  op = "fance" =>
    \A k \in 1..Len(calls) :
      /\ calls[k].args.yOCC = Mul(args.yOCC, args.fRetCC)
      /\ calls[k].args.yMgCC = Mul(args.yMgCC, args.fRetCC)
      /\ calls[k].args.yFeCC = Mul(args.yFeCC, args.fRetCC)
      /\ calls[k].args.yFeIa = args.yFeIa
      /\ calls[k].args.SolarO = args.SolarO
      /\ calls[k].args.SolarMg = args.SolarMg
      /\ calls[k].args.SolarFe = args.SolarFe

\* the unscaled yields of a fance call, from the statements of lines 249-255
C6_yOCC == fance_yOCC(args.aFeCC, fanceSolarO, fanceSolarFe)
C6_yFeCC == fance_yFeCC(C6_yOCC, args.aFeCC, fanceSolarO, fanceSolarFe)
C6_yMgCC == fance_yMgCC(C6_yOCC, fanceSolarO, fanceSolarMg)

\* C6: every waf2017 call of fance gets the three CCSN yields multiplied by
\* the one factor fRetCC, and an Ia yield that is a function of aFeCC alone
C6_RetentionScalesCCOnly ==
  op = "fance" =>
    \A k \in 1..Len(calls) :
      /\ calls[k].args.yOCC = Mul(C6_yOCC, args.fRetCC)
      /\ calls[k].args.yMgCC = Mul(C6_yMgCC, args.fRetCC)
      /\ calls[k].args.yFeCC = Mul(C6_yFeCC, args.fRetCC)
      /\ calls[k].args.yFeIa = fance_yFeIa(C6_yFeCC, args.aFeCC)

C6_Witness ==
  /\ op = "fance"
  /\ Len(calls) = 2
  /\ args.fRetCC = 5000
  /\ calls[2].args.yFeCC < C6_yFeCC

\* [Fe/H] of a waf2017 call from the CCSN iron alone: the statements of
\* lines 80-82, 85-91, 97, 99, 113 / 130, 115 and 173, none of which reads
\* tauIa, IaDTD_fn or yFeIa
C7_FeHCCOnly(a) ==
  LET tauSFE == Mul(a.tauSFE, xfac)
      tauDep == Div(tauSFE, SCALE + a.eta - a.r)
      tauDepSFH == IF a.SFH_fn = "constant" THEN tauDep
                   ELSE HarmonicDiff(tauDep, Mul(a.tauSFH, yfac))
      ZOEq == Div(Mul(a.yOCC, tauDepSFH), tauSFE)
      ZFeCCEq == Div(Mul(a.yFeCC, tauDepSFH), tauSFE)
      ZO == IF a.SFH_fn = "linexp" THEN ZCCLinexp(ZOEq, a.tmod, tauDepSFH)
            ELSE ZCCExp(ZOEq, a.tmod, tauDepSFH)
  IN  [i \in 1..Len(a.tmod) |->
         Log10(Div(Div(Mul(ZO[i], ZFeCCEq), ZOEq), a.SolarFe))]

\* C7: at every grid index with tmod < tDminIa both Ia components are zero,
\* the total Fe abundance is the CCSN Fe abundance, and the returned [Fe/H]
\* is the one computed without tauIa, IaDTD_fn and yFeIa
C7_ZeroBeforeDelay ==
  /\ "ZFe" \in wf.bound =>
       \A i \in 1..Len(wf.a.tmod) :
         wf.a.tmod[i] < wf.a.tDminIa =>
           /\ wf.ZFeIa1[i] = 0
           /\ wf.ZFeIa2[i] = 0
           /\ wf.ZFe[i] = wf.ZFeCC[i]
  /\ \A k \in 1..Len(calls) :
       calls[k].ret.status = "returned" =>
         \A i \in 1..Len(calls[k].args.tmod) :
           calls[k].args.tmod[i] < calls[k].args.tDminIa =>
             calls[k].ret.FeH[i] = C7_FeHCCOnly(calls[k].args)[i]

\* a linexp call under the power law returned: some samples lie before the
\* delay and a later one has iron from SNe Ia
C7_Witness ==
  /\ pc = "done"
  /\ op = "waf2017"
  /\ args.SFH_fn = "linexp"
  /\ args.IaDTD_fn = "powerlaw"
  /\ \E i \in 1..Len(args.tmod) : args.tmod[i] < args.tDminIa
  /\ \E i \in 1..Len(args.tmod) :
       /\ args.tmod[i] > args.tDminIa
       /\ wf.ZFe[i] > wf.ZFeCC[i]

\* C8: the DTD resolves to (tauIa, tauIa, 1.0, 0.0) for 'exponential', to
\* (0.25, 3.5, 0.493, 0.507) for 'powerlaw' with tDminIa = 0.05 and to
\* (0.5, 5.0, 0.478, 0.522) for 'powerlaw' with tDminIa = 0.15, whatever
\* tauIa is under 'powerlaw'
C8_DTDResolved ==
  "tauIa1" \in wf.bound =>
    LET q == <<wf.tauIa1, wf.tauIa2, wf.Ia_norm1, wf.Ia_norm2>>
    IN  CASE wf.a.IaDTD_fn = "exponential" ->
               q = <<wf.a.tauIa, wf.a.tauIa, 10000, 0>>
          [] wf.a.IaDTD_fn = "powerlaw" /\ wf.a.tDminIa = 500 ->
               q = <<2500, 35000, 4930, 5070>>
          [] wf.a.IaDTD_fn = "powerlaw" /\ wf.a.tDminIa = 1500 ->
               q = <<5000, 50000, 4780, 5220>>
          [] OTHER -> FALSE

C8_Witness ==
  /\ "tauIa1" \in wf.bound
  /\ wf.a.IaDTD_fn = "powerlaw"
  /\ wf.a.tDminIa = 500
  /\ wf.a.tauIa = 30000

\* C9: a call under 'powerlaw' with tDminIa other than 0.05 and 0.15 ends
\* with the RuntimeError saying that tDminIa must be either 0.05 or 0.15
C9_UnsupportedDTDRaises ==
  (/\ Finished
   /\ Len(calls) >= 1
   /\ LastCall.args.IaDTD_fn = "powerlaw"
   /\ LastCall.args.tDminIa \notin {tDmin005, tDmin015}) =>
    /\ ret.status = "raised"
    /\ ret.exc = "RuntimeError"
    /\ ret.msg = MsgTDmin

\* C10: a waf2017 call with an unknown SFH_fn or IaDTD_fn ends with the
\* RuntimeError that names the allowed tags (the calls with a power law of
\* uncalibrated tDminIa, which fail earlier, are left to C9)
C10_UnknownTagRaises ==
  (/\ Finished
   /\ Len(calls) >= 1
   /\ \/ LastCall.args.SFH_fn \notin {"constant", "exponential", "linexp"}
      \/ LastCall.args.IaDTD_fn \notin {"exponential", "powerlaw"}
   /\ ~ (/\ LastCall.args.IaDTD_fn = "powerlaw"
         /\ LastCall.args.tDminIa \notin {tDmin005, tDmin015})) =>
    /\ ret.status = "raised"
    /\ ret.exc = "RuntimeError"
    /\ ret.msg = IF LastCall.args.IaDTD_fn \notin {"exponential", "powerlaw"}
                 THEN MsgDTD ELSE MsgSFH

\* a waf2017 call whose tags and tDminIa are supported
SupportedTags(a) ==
  /\ a.SFH_fn \in {"constant", "exponential", "linexp"}
  /\ \/ a.IaDTD_fn = "exponential"
     \/ a.IaDTD_fn = "powerlaw" /\ a.tDminIa \in {tDmin005, tDmin015}

\* tauSFE <= 0, tauSFH <= 0 under a non-constant SFH, tauIa <= 0 under the
\* exponential DTD, or 1 + eta - r <= 0
InvalidTimescales(a) ==
  \/ a.tauSFE <= 0
  \/ a.SFH_fn # "constant" /\ a.tauSFH <= 0
  \/ a.IaDTD_fn = "exponential" /\ a.tauIa <= 0
  \/ SCALE + a.eta - a.r <= 0

\* C11: a waf2017 call with tauSFE <= 0, with tauSFH <= 0 under a
\* non-constant SFH, with tauIa <= 0 under the exponential DTD or with
\* 1 + eta - r <= 0 ends with an InvalidParameter error and returns no track
C11_InvalidTimescaleRaises ==
  (/\ Finished
   /\ op = "waf2017"
   /\ SupportedTags(args)
   /\ InvalidTimescales(args)) =>
    /\ ret.status = "raised"
    /\ ret.exc = "InvalidParameter"

\* the un-normalised weight SFR2 + SFRh of the rise-fall branch is exactly
\* zero at some grid sample
DegenerateWeights ==
  /\ op = "fance"
  /\ fr.branch = "risefall"
  /\ \E i \in 1..Len(fr.SFRsum) : fr.SFRsum[i] = 0

\* C12: a rise-fall fance call whose un-normalised weight SFR2 + SFRh is
\* exactly zero at some grid sample ends with an InvalidParameter error and
\* returns no track
C12_ZeroWeightRaises ==
  (Finished /\ DegenerateWeights) =>
    /\ ret.status = "raised"
    /\ ret.exc = "InvalidParameter"

\* tauSFE > 0, tauSFH > 0, tauIa > 0 and 1 + eta - r > 0
ValidTimescales(a) ==
  /\ a.tauSFE > 0
  /\ a.tauSFH > 0
  /\ a.tauIa > 0
  /\ SCALE + a.eta - a.r > 0

\* C13: for a waf2017 call with tauSFE > 0, tauSFH > 0, tauIa > 0 and
\* 1 + eta - r > 0, no harmonic difference divides by zero: the call does not
\* end with a ZeroDivisionError
C13_NoDegenerateTimescale ==
  (/\ Finished
   /\ Len(calls) >= 1
   /\ SupportedTags(LastCall.args)
   /\ ValidTimescales(LastCall.args)) =>
    ret.exc # "ZeroDivisionError"

\* what a solve returns when it runs alone
Solo(o, a) ==
  IF o = "waf2017" THEN waf2017_value(a)
  ELSE IF o = "fance" THEN fance_value(a)
  ELSE time_value(a)

\* the solve s has ended
Ended(s) == s.pc \in {"done", "raised"}

RatiosDerived(R) ==
  /\ Len(R.OFe) = Len(R.OH) /\ Len(R.MgFe) = Len(R.OH)
  /\ \A i \in 1..Len(R.OH) :
       /\ R.OFe[i] = IF R.OH[i] = NONFINITE \/ R.FeH[i] = NONFINITE
                     THEN NONFINITE ELSE R.OH[i] - R.FeH[i]
       /\ R.MgFe[i] = IF R.MgH[i] = NONFINITE \/ R.FeH[i] = NONFINITE
                      THEN NONFINITE ELSE R.MgH[i] - R.FeH[i]

\* C15: in every track returned by waf2017 (called directly or by fance) and
\* by fance in the constant, exponential and rise-fall branches, [O/Fe] is
\* [O/H] - [Fe/H] and [Mg/Fe] is [Mg/H] - [Fe/H] of the same returned tuple
\* at every grid index.
C15_RatiosAreDifferences ==
  /\ \A k \in 1..Len(calls) :
       calls[k].ret.status = "returned" => RatiosDerived(calls[k].ret)
  /\ (op = "fance" /\ pc = "done") => RatiosDerived(ret)

\* fance has returned a rise-fall track with finite ratios that differ from
\* the ratios of both waf2017 calls
C15_Witness ==
  /\ op = "fance" /\ pc = "done" /\ fr.branch = "risefall"
  /\ \E i \in 1..Len(ret.OH) :
       /\ ret.MgFe[i] # NONFINITE /\ ret.FeH[i] # 0
       /\ ret.MgFe[i] # calls[1].ret.MgFe[i]
       /\ ret.MgFe[i] # calls[2].ret.MgFe[i]

\* 0.001 dex: the rounding of the arithmetic in a bracket value whose linear
\* abundance is 0.1 solar or more
BracketTol == SCALE \div 1000

\* the sample i of the track R that fance returns is resolved by the
\* arithmetic: its Mg abundance is finite and 0.1 solar or more, and in the
\* rise-fall branch the two weights of opposite sign leave a quarter or
\* more (the rounding of the two tracks is divided by their sum)
Resolved(R, i) ==
  /\ R.MgH[i] # NONFINITE
  /\ R.MgH[i] >= -SCALE
  /\ fr.branch = "risefall" => 4 * fr.SFRsum[i] >= SCALE

\* [O/H] tracks [Mg/H] and [O/Fe] tracks [Mg/Fe] in R: non-finite at the
\* same indices, and equal to the rounding of the arithmetic where resolved
MgTracksO(R) ==
  \A i \in 1..Len(R.OH) :
    /\ (R.OH[i] = NONFINITE) <=> (R.MgH[i] = NONFINITE)
    /\ (R.OFe[i] = NONFINITE) <=> (R.MgFe[i] = NONFINITE)
    /\ (Resolved(R, i) /\ R.OFe[i] # NONFINITE) =>
         /\ Abs(R.OH[i] - R.MgH[i]) <= BracketTol
         /\ Abs(R.OFe[i] - R.MgFe[i]) <= BracketTol

C17_Scenario ==
  /\ op = "fance" /\ pc = "done"
  /\ args.tauSFH1 = 20000 /\ args.tauSFH2 = 80000 /\ args.aFeCC = 4500
  /\ args.dt = SCALE /\ Len(ret.MgFe) = 13

\* the grid index of the peak of the star formation rate
PeakIndex ==
  CHOOSE k \in 1..Len(fr.SFRsum) :
    \A j \in 1..Len(fr.SFRsum) : fr.SFRsum[k] >= fr.SFRsum[j]

\* how far the last [Mg/Fe] of the scenario may be from aFeEq: 0.05 dex
LateTol == SCALE \div 20

Combined ==
  op = "fance" /\ fr.branch = "risefall" /\ pc \in {"f_norm", "done"}

\* Z * (w2 + wh) = w2 * Z2 + wh * Zh to the rounding of one division and
\* one product, where the combined Z is finite
WeightedMean(Z, w2, Z2, wh, Zh) ==
  Z # NONFINITE =>
    Abs(Mul(Z, w2 + wh) - (Mul(w2, Z2) + Mul(wh, Zh))) <= 2

DepIsSFH(a) ==
  /\ a.SFH_fn \in {"exponential", "linexp"}
  /\ Div(a.tauSFE, SCALE + a.eta - a.r) = a.tauSFH

\* the caller passes tauSFE / (1 + eta - r) = tauIa
DepIsIa(a) == Div(a.tauSFE, SCALE + a.eta - a.r) = a.tauIa

\* the caller passes tauIa = tauSFH, and the SFH has a timescale
IaIsSFH(a) ==
  /\ a.SFH_fn \in {"exponential", "linexp"}
  /\ a.tauIa = a.tauSFH

\* a call with positive timescales, a supported SFH and the exponential
\* DTD, for which tauIa1 = tauIa2 = tauIa
Coinciding(a) ==
  /\ ValidTimescales(a)
  /\ a.SFH_fn \in {"constant", "exponential", "linexp"}
  /\ a.IaDTD_fn = "exponential"
  /\ (DepIsSFH(a) \/ DepIsIa(a) \/ IaIsSFH(a))

\* tauSFE * xfac / (1 + eta - r) and tauSFH * yfac of the arguments a
PerturbedDep(a) == Div(Mul(a.tauSFE, xfac), SCALE + a.eta - a.r)

PerturbedSFH(a) == Mul(a.tauSFH, yfac)

\* C19: when the caller's timescales coincide before the perturbation
\* (tauSFE / (1 + eta - r) = tauSFH, tauSFE / (1 + eta - r) = tauIa or
\* tauIa = tauSFH), the two values that waf2017 uses after the
\* multiplication by xfac and yfac differ, and the harmonic difference of
\* the two has a non-zero denominator; the locals of the call hold these
\* values once lines 80-93 have run.
C19_CoincidingSeparated ==
  \A k \in 1..Len(calls) :
    LET a == calls[k].args
    IN  Coinciding(a) =>
          /\ DepIsSFH(a) =>
               /\ PerturbedDep(a) # PerturbedSFH(a)
               /\ ~HarmonicDiffFails(PerturbedDep(a), PerturbedSFH(a))
          /\ DepIsIa(a) =>
               /\ PerturbedDep(a) # a.tauIa
               /\ ~HarmonicDiffFails(PerturbedDep(a), a.tauIa)
          /\ IaIsSFH(a) =>
               /\ a.tauIa # PerturbedSFH(a)
               /\ ~HarmonicDiffFails(a.tauIa, PerturbedSFH(a))
          /\ (k = Len(calls) /\ "tauDepSFH" \in wf.bound) =>
               /\ wf.tauDep = PerturbedDep(a)
               /\ wf.tauIa1 = a.tauIa
               /\ a.SFH_fn # "constant" => wf.tauSFH = PerturbedSFH(a)

\* a waf2017 call with tauSFE / (1 + eta - r) = tauSFH = 2.0 under the
\* exponential SFH has returned its tracks
C19_Witness ==
  /\ op = "waf2017" /\ pc = "done" /\ ret.status = "returned"
  /\ Coinciding(args) /\ DepIsSFH(args)
  /\ args.SFH_fn = "exponential"
  /\ wf.tauDep # wf.tauSFH

\* the Ia component of the linear-exponential history as a function of
\* tmod, tDmin, tauDepSFH, tauDepIa_k, tauIaSFH_k and ZFeIaEq_k, its
\* prefactor tauIaSFH_k / tmod, zero before the minimum delay
IaComponent(w, ZFeIaEqk, tauDepIak, tauIaSFHk) ==
  ZeroBeforeDelay(
    ZFeIaLinexp(ZFeIaEqk, w.a.tmod, w.a.tDminIa, w.tauDepSFH,
                tauDepIak, tauIaSFHk),
    w.a.tmod, w.a.tDminIa)

\* C20: under the linear-exponential SFH, in waf2017 and in waf_linexp,
\* ZFeIa1 and ZFeIa2 are one and the same function of (tmod, tDmin,
\* tauDepSFH, tauDepIa_k, tauIaSFH_k, ZFeIaEq_k), with the prefactor
\* tauIaSFH_k / tmod: the function gives ZFeIa1 for the parameters of
\* component 1 and ZFeIa2 for the parameters of component 2.
C20_IaComponentsSameFunction ==
  ("ZFeIa1" \in wf.bound /\ wf.a.SFH_fn = "linexp") =>
    /\ wf.ZFeIa1 = IaComponent(wf, wf.ZFeIaEq1, wf.tauDepIa1, wf.tauIaSFH1)
    /\ wf.ZFeIa2 = IaComponent(wf, wf.ZFeIaEq2, wf.tauDepIa2, wf.tauIaSFH2)

\* the sum of the weights sfr[1..n]
RECURSIVE WeightTotal(_, _)
WeightTotal(sfr, n) == IF n = 0 THEN 0 ELSE WeightTotal(sfr, n - 1) + sfr[n]

\* the sum of the bins y[1..n]
RECURSIVE BinsTotal(_, _)
BinsTotal(y, n) == IF n = 0 THEN 0 ELSE BinsTotal(y, n - 1) + y[n]

\* C21: mdf adds the weight sfr[i] of every sample to exactly one bin; for
\* xmin <= xh[i] < xmax the bin is the one whose returned centre x is within
\* dx / 2 of xh[i], and a sample outside the range goes to the first or to
\* the last bin.
C21_SampleInItsBin ==
  (op = "mdf" /\ pc = "done") =>
    /\ BinsTotal(mf.y, Len(mf.y)) = WeightTotal(args.sfr, Len(args.sfr))
    /\ \A i \in 1..Len(args.xh) :
         /\ mf.ibin[i] \in 0..(Len(mf.x) - 1)
         /\ (args.xmin <= args.xh[i] /\ args.xh[i] < args.xmax) =>
              2 * Abs(mf.x[mf.ibin[i] + 1] - args.xh[i]) <= args.dx
         /\ args.xh[i] < args.xmin => mf.ibin[i] = 0
         /\ args.xh[i] >= args.xmax => mf.ibin[i] = Len(mf.x) - 1

\* the parameter set is constructed and its last call returned
ParSetReady == ps.kind # "none" /\ ps.last = "returned"

C26_KwargsAccepted ==
  /\ ParSetReady =>
       DOMAIN ps.attrs["model_kwargs"] \subseteq
         parameters(IF ps.kind = "WAF" THEN "waf2017" ELSE "fance")
  /\ op = "parset" => ret.status # "raised"

\* C23: at a sample with tmod = tDminIa the closed-form Ia expression of each
\* component is exactly zero, in the constant/exponential family and in the
\* linexp family, so the mask tmod < tDminIa leaves what tmod <= tDminIa
\* would leave.
C23_ZeroAtDelay ==
  (op = "delay" /\ pc = "done") =>
    /\ ret.ZFeIa1 = FZero
    /\ ret.ZFeIa2 = FZero

\* C24: in the rise-fall branch of fance with tauSFH1 > 0, tauh is strictly
\* smaller than tauSFH1 and than tauSFH2 when tauSFH2 > 0, and the combined
\* weight SFR2 + SFRh is strictly positive at every grid sample, so that no
\* division by it and no normalisation by its sum divides by zero.
C24_WeightsPositive ==
  (op = "fance" /\ fr.branch = "risefall" /\ args.tauSFH1 > 0
     /\ Len(fr.SFRsum) > 0) =>
    /\ args.tauSFH2 > 0 =>
         (fr.tauh < args.tauSFH1 /\ fr.tauh < args.tauSFH2)
    /\ \A i \in 1..Len(fr.SFRsum) : fr.SFRsum[i] > 0

\* the rounding of the arithmetic in [O/Fe] before the delay, 0.01 dex
PlateauTol == SCALE \div 100

\* C25: in every track that fance returns, at every grid index with
\* tmod < tDminIa, [O/Fe] and [Mg/Fe] are the plateau value aFeCC, in the
\* constant, exponential and rise-fall branches and for every fRetCC > 0.
\* In the rise-fall branch the arithmetic of the model does not resolve the
\* value at these early samples, only whether it is finite.
C25_PlateauBeforeDelay ==
  (op = "fance" /\ pc = "done" /\ args.fRetCC > 0) =>
    \A i \in 1..Len(ret.OFe) :
      fr.tmod[i] < args.tDminIa =>
        /\ ret.OFe[i] # NONFINITE
        /\ ret.MgFe[i] # NONFINITE
        /\ fr.branch # "risefall" =>
             /\ Abs(ret.OFe[i] - args.aFeCC) <= PlateauTol
             /\ Abs(ret.MgFe[i] - args.aFeCC) <= PlateauTol

====
